---- MODULE Spec2Model ----
(***************************************************************************)
(* Model of the rule engine of gmail_automation (src/rule_engine.py) and   *)
(* of the part of the Gmail client (src/gmail_client.py) its actions call, *)
(* of the email store (src/database_manager.py) and of the script that     *)
(* runs the rules on the stored emails (src/process_emails.py).            *)
(*                                                                         *)
(* Python values are encoded as records [k, s, n]: k is the type tag, s    *)
(* the characters of a string, n a number.  Strings are sequences of       *)
(* one-character strings so that lower() and the substring test are        *)
(* computed.  Times are integers counting hundredths of a day, so that     *)
(* timedelta(days=n) is n * 100 and timedelta(days=n * 30.44) is n * 3044. *)
(***************************************************************************)
EXTENDS Integers, Sequences, FiniteSets, TLC

VARIABLES
    rules_data,     \* the rule document RuleEngine._load_rules reads
    rules,          \* RuleEngine.rules
    emails,         \* the batch given to process_emails
    now,            \* the last reading of datetime.now(timezone.utc)
    pc,             \* position of process_emails
    ei,             \* index of email_obj in emails
    ri,             \* index of rule in self.rules
    evaluated_conditions, \* the list Rule.matches builds
    ai,             \* index of action in rule.actions
    all_succeeded,  \* local of Rule.execute_actions
    calls,          \* calls made to the GmailClient primitives, in order
    warnings,       \* records given to logger.warning, in order
    lastEval,       \* the last Condition.evaluate: condition, email, outcome
    match_log,      \* the Rule.matches calls that returned, in order
    lastExec,       \* the last Action.execute: action, email id, outcome
    lastRun,        \* the last Rule.execute_actions that ended
    stdout,         \* the lines the rule engine has printed, in order
    label_id_map,   \* GmailClient.label_id_map: label name to label id
    mailbox,        \* the mail service's messages: message id to label ids
    requests,       \* the requests sent to the Gmail API, in order
    conn,           \* DatabaseManager.conn: "none", "open" or "closed"
    table,          \* the rows of the emails table, in rowid order
    inserted,       \* id to the email dict of its last successful insert
    lastDb,         \* the last DatabaseManager call: arguments and outcome
    ndb,            \* the number of DatabaseManager calls made
    script,         \* position of process_stored_emails
    closes          \* the number of times conn.close() was called

\* the variables of the DatabaseManager and of process_stored_emails
store_vars == <<conn, table, inserted, lastDb, ndb, script, closes>>

\* the variables of the RuleEngine, of the GmailClient and of the mail
\* service
engine_vars == <<rules_data, rules, emails, now, pc, ei, ri,
                 evaluated_conditions, ai, all_succeeded, calls, warnings,
                 lastEval, match_log, lastExec, lastRun, stdout,
                 label_id_map, mailbox, requests>>

vars == <<rules_data, rules, emails, now, pc, ei, ri, evaluated_conditions,
          ai, all_succeeded, calls, warnings, lastEval, match_log, lastExec,
          lastRun, stdout, label_id_map, mailbox, requests, conn, table,
          inserted, lastDb, ndb, script, closes>>

---------------------------------------------------------------------------
(* Bounds of the model. *)
MaxEmails == 2
MaxRules == 2
MaxConds == 2
MaxActs == 2
MaxDrift == 2
MaxDbCalls == 3
StartTime == 4000

---------------------------------------------------------------------------
(* Python values. *)
Val(k, s, n) == [k |-> k, s |-> s, n |-> n]

None == Val("none", <<>>, 0)

Str(s) == Val("str", s, 0)

\* a timezone-aware datetime
DateTime(t) == Val("datetime", <<>>, t)

\* a naive datetime, as email.utils.parsedate_to_datetime gives for "-0000"
NaiveDateTime(t) == Val("naive", <<>>, t)

\* the JSON object {"days": n}
Days(n) == Val("days", <<>>, n)

\* the JSON object {"months": n}
Months(n) == Val("months", <<>>, n)

\* the JSON object {"days": "1"}: the key is there, the amount is no number
DaysText == Val("days_text", <<>>, 0)

\* a non-empty JSON array or object with neither "days" nor "months"
List == Val("list", <<>>, 0)

\* a key the JSON entry does not have
Missing == Val("missing", <<>>, 0)

IsStr(v) == v.k = "str"

IsDateTime(v) == v.k \in {"datetime", "naive"}

IsDict(v) == v.k \in {"days", "months", "days_text"}

\* Python truthiness of a value (if self.value:)
Truthy(v) == CASE v.k = "none" -> FALSE
               [] v.k = "str" -> v.s /= <<>>
               [] OTHER -> TRUE

\* hashable values can be dictionary keys; lists and dicts cannot
Hashable(v) == v.k \notin {"list", "days", "months", "days_text"}

LowerChar(c) == CASE c = "A" -> "a"
                  [] c = "B" -> "b"
                  [] c = "L" -> "l"
                  [] c = "N" -> "n"
                  [] c = "Y" -> "y"
                  [] OTHER -> c

UpperChar(c) == CASE c = "a" -> "A"
                  [] c = "b" -> "B"
                  [] c = "i" -> "I"
                  [] c = "l" -> "L"
                  [] c = "n" -> "N"
                  [] c = "o" -> "O"
                  [] c = "x" -> "X"
                  [] c = "y" -> "Y"
                  [] OTHER -> c

\* str.upper()
upper(s) == [i \in DOMAIN s |-> UpperChar(s[i])]

\* a lower() that leaves every character as it is
lower_Identity(s) == s

\* str.lower()
lower(s) == [i \in DOMAIN s |-> LowerChar(s[i])]

\* a test that only finds needle at the start of hay
In_Prefix(needle, hay) ==
    /\ Len(needle) <= Len(hay)
    /\ SubSeq(hay, 1, Len(needle)) = needle

\* the Python test  needle in hay  on strings
In(needle, hay) ==
    \E i \in 0..(Len(hay) - Len(needle)) :
        SubSeq(hay, i + 1, i + Len(needle)) = needle

---------------------------------------------------------------------------
(* Condition *)

FieldWarning(name) == [kind |-> "field", name |-> name]

PredicateWarning(name) == [kind |-> "predicate", name |-> name]

ActionWarning(name) == [kind |-> "action", name |-> name]

CombinatorWarning ==
    [kind |-> "overall_predicate", name |-> "overall_predicate"]

\* Condition._get_email_field_value: the attribute, and the warning logged
get_email_field_value(email_obj, field_name) ==
    CASE field_name = "From" ->
             [val |-> email_obj.from_address, warns |-> <<>>]
      [] field_name = "Subject" ->
             [val |-> email_obj.subject, warns |-> <<>>]
      [] field_name = "Message" ->
             [val |-> email_obj.message_body, warns |-> <<>>]
      [] field_name = "Received Date/Time" ->
             [val |-> email_obj.received_date_time, warns |-> <<>>]
      [] OTHER ->
             [val |-> None, warns |-> <<FieldWarning(field_name)>>]

\* timedelta(days=...) of a condition value that has "days" or "months";
\* a non-numeric amount makes timedelta raise TypeError
DeltaRaises(value) == value.k = "days_text"

\* 30.44, the days of a month, in hundredths of a day
ApproxDaysPerMonth == 3044

\* the timedelta of {"days": n} or {"months": n}, in hundredths of a day
Delta(value) ==
    IF value.k = "days" THEN value.n * 100
    ELSE value.n * ApproxDaysPerMonth

\* datetime.min, the earliest datetime: times are counted from it
DateTimeMin == 0

\* datetime.now(timezone.utc) - timedelta(...) raises OverflowError when the
\* result is earlier than datetime.min
ThresholdRaises(value, t) == t - Delta(value) < DateTimeMin

\* email_value > threshold_date and email_value < threshold_date raise
\* TypeError when email_value is naive (the threshold is timezone-aware)
CompareRaises(email_value) == email_value.k = "naive"

\* the date branch without its tests of the field and of the type of
\* email_value
DateBranch_AnyField(self, email_value, t, newer, warns) ==
    IF IsDict(self.value)
    THEN IF \/ DeltaRaises(self.value)
            \/ ThresholdRaises(self.value, t)
            \/ CompareRaises(email_value)
         THEN [raised |-> TRUE, val |-> FALSE, warns |-> warns, clock |-> TRUE]
         ELSE [raised |-> FALSE,
               val |-> IF newer THEN email_value.n > t - Delta(self.value)
                                ELSE email_value.n < t - Delta(self.value),
               warns |-> warns, clock |-> TRUE]
    ELSE [raised |-> FALSE, val |-> FALSE, warns |-> warns, clock |-> FALSE]

\* the date branch where a timestamp equal to the threshold satisfies both
\* predicates
DateBranch_NotStrict(self, email_value, t, newer, warns) ==
    IF self.field = "Received Date/Time" /\ IsDateTime(email_value)
       /\ IsDict(self.value)
    THEN IF \/ DeltaRaises(self.value)
            \/ ThresholdRaises(self.value, t)
            \/ CompareRaises(email_value)
         THEN [raised |-> TRUE, val |-> FALSE, warns |-> warns, clock |-> TRUE]
         ELSE [raised |-> FALSE,
               val |-> IF newer THEN email_value.n >= t - Delta(self.value)
                                ELSE email_value.n <= t - Delta(self.value),
               warns |-> warns, clock |-> TRUE]
    ELSE [raised |-> FALSE, val |-> FALSE, warns |-> warns, clock |-> FALSE]

\* the branch shared by "less than" (newer = TRUE) and "greater than"
DateBranch(self, email_value, t, newer, warns) ==
    IF self.field = "Received Date/Time" /\ IsDateTime(email_value)
       /\ IsDict(self.value)
    THEN IF \/ DeltaRaises(self.value)
            \/ ThresholdRaises(self.value, t)
            \/ CompareRaises(email_value)
         THEN [raised |-> TRUE, val |-> FALSE, warns |-> warns, clock |-> TRUE]
         ELSE [raised |-> FALSE,
               val |-> IF newer THEN email_value.n > t - Delta(self.value)
                                ELSE email_value.n < t - Delta(self.value),
               warns |-> warns, clock |-> TRUE]
    ELSE [raised |-> FALSE, val |-> FALSE, warns |-> warns, clock |-> FALSE]

\* Condition.evaluate without the test of an absent email_value, and where
\* the containment predicates read an absent email_value as the empty string
Condition_evaluate_NoneAsEmpty(self, email_obj, t) ==
    LET g == get_email_field_value(email_obj, self.field)
        email_value == g.val
        text == IF IsStr(email_value) THEN email_value.s ELSE <<>>
        Ret(v) == [raised |-> FALSE, val |-> v, warns |-> g.warns,
                   clock |-> FALSE]
        Raise == [raised |-> TRUE, val |-> FALSE, warns |-> g.warns,
                  clock |-> FALSE]
    IN  CASE self.predicate = "contains" ->
                 IF IsStr(email_value) \/ email_value = None
                 THEN IF IsStr(self.value)
                      THEN Ret(In(lower(self.value.s), lower(text)))
                      ELSE Raise
                 ELSE Ret(FALSE)
          [] self.predicate = "does not contain" ->
                 IF IsStr(email_value) \/ email_value = None
                 THEN IF IsStr(self.value)
                      THEN Ret(~In(lower(self.value.s), lower(text)))
                      ELSE Raise
                 ELSE Ret(FALSE)
          [] self.predicate = "equals" ->
                 IF IsStr(email_value) /\ IsStr(self.value)
                 THEN Ret(lower(email_value.s) = lower(self.value.s))
                 ELSE Ret(email_value = self.value)
          [] self.predicate = "does not equal" ->
                 IF IsStr(email_value) /\ IsStr(self.value)
                 THEN Ret(lower(email_value.s) /= lower(self.value.s))
                 ELSE Ret(email_value /= self.value)
          [] self.predicate = "less than" ->
                 DateBranch(self, email_value, t, TRUE, g.warns)
          [] self.predicate = "greater than" ->
                 DateBranch(self, email_value, t, FALSE, g.warns)
          [] OTHER ->
                 [raised |-> FALSE, val |-> FALSE,
                  warns |-> g.warns \o <<PredicateWarning(self.predicate)>>,
                  clock |-> FALSE]

\* Condition.evaluate where "does not contain" compares the texts as they
\* are, without lowercasing them
Condition_evaluate_NotContainsExact(self, email_obj, t) ==
    LET g == get_email_field_value(email_obj, self.field)
        email_value == g.val
        Ret(v) == [raised |-> FALSE, val |-> v, warns |-> g.warns,
                   clock |-> FALSE]
        Raise == [raised |-> TRUE, val |-> FALSE, warns |-> g.warns,
                  clock |-> FALSE]
    IN  IF email_value = None
           /\ self.predicate \notin {"equals", "does not equal"}
        THEN Ret(FALSE)
        ELSE CASE self.predicate = "contains" ->
                 IF IsStr(email_value)
                 THEN IF IsStr(self.value)
                      THEN Ret(In(lower(self.value.s), lower(email_value.s)))
                      ELSE Raise   \* self.value.lower(): AttributeError
                 ELSE Ret(FALSE)
          [] self.predicate = "does not contain" ->
                 IF IsStr(email_value)
                 THEN IF IsStr(self.value)
                      THEN Ret(~In(self.value.s, email_value.s))
                      ELSE Raise
                 ELSE Ret(FALSE)
          [] self.predicate = "equals" ->
                 IF IsStr(email_value) /\ IsStr(self.value)
                 THEN Ret(lower(email_value.s) = lower(self.value.s))
                 ELSE Ret(email_value = self.value)
          [] self.predicate = "does not equal" ->
                 IF IsStr(email_value) /\ IsStr(self.value)
                 THEN Ret(lower(email_value.s) /= lower(self.value.s))
                 ELSE Ret(email_value /= self.value)
          [] self.predicate = "less than" ->
                 DateBranch(self, email_value, t, TRUE, g.warns)
          [] self.predicate = "greater than" ->
                 DateBranch(self, email_value, t, FALSE, g.warns)
          [] OTHER ->
                 [raised |-> FALSE, val |-> FALSE,
                  warns |-> g.warns \o <<PredicateWarning(self.predicate)>>,
                  clock |-> FALSE]

\* Condition.evaluate(email_obj), with t the value datetime.now() returns if
\* it is read.  raised: an exception leaves evaluate; val: the value returned;
\* warns: what was given to logger.warning; clock: datetime.now() was read.
Condition_evaluate(self, email_obj, t) ==
    LET g == get_email_field_value(email_obj, self.field)
        email_value == g.val
        Ret(v) == [raised |-> FALSE, val |-> v, warns |-> g.warns,
                   clock |-> FALSE]
        Raise == [raised |-> TRUE, val |-> FALSE, warns |-> g.warns,
                  clock |-> FALSE]
    IN  IF email_value = None
           /\ self.predicate \notin {"equals", "does not equal"}
        THEN Ret(FALSE)
        ELSE CASE self.predicate = "contains" ->
                 IF IsStr(email_value)
                 THEN IF IsStr(self.value)
                      THEN Ret(In(lower(self.value.s), lower(email_value.s)))
                      ELSE Raise   \* self.value.lower(): AttributeError
                 ELSE Ret(FALSE)
          [] self.predicate = "does not contain" ->
                 IF IsStr(email_value)
                 THEN IF IsStr(self.value)
                      THEN Ret(~In(lower(self.value.s), lower(email_value.s)))
                      ELSE Raise
                 ELSE Ret(FALSE)
          [] self.predicate = "equals" ->
                 IF IsStr(email_value) /\ IsStr(self.value)
                 THEN Ret(lower(email_value.s) = lower(self.value.s))
                 ELSE Ret(email_value = self.value)
          [] self.predicate = "does not equal" ->
                 IF IsStr(email_value) /\ IsStr(self.value)
                 THEN Ret(lower(email_value.s) /= lower(self.value.s))
                 ELSE Ret(email_value /= self.value)
          [] self.predicate = "less than" ->
                 DateBranch(self, email_value, t, TRUE, g.warns)
          [] self.predicate = "greater than" ->
                 DateBranch(self, email_value, t, FALSE, g.warns)
          [] OTHER ->
                 [raised |-> FALSE, val |-> FALSE,
                  warns |-> g.warns \o <<PredicateWarning(self.predicate)>>,
                  clock |-> FALSE]

---------------------------------------------------------------------------
(* GmailClient: the label cache and the four primitives.  resp is what    *)
(* the Gmail API answers to the requests of one call: resp.list is the     *)
(* answer to labels().list (ListFails for an error, else Listed(labels)    *)
(* with the labels of the account, each with a name and an id), resp.get   *)
(* and resp.modify are whether messages().get and messages().modify        *)
(* succeed.  Every exception                                               *)
(* of a request is caught inside the primitive and becomes False.  A       *)
(* modify that succeeds changes the labels of the message at the service;  *)
(* one that fails changes nothing.                                         *)

\* the answer to labels().list when the request raises
ListFails == [ok |-> FALSE, labels |-> <<>>]

\* the answer to labels().list that gives the labels of the account
Listed(labels) == [ok |-> TRUE, labels |-> labels]

\* None, as _get_label_id returns it
NoId == "<None>"

\* the label id of a primitive that looks no label up
NoLookup == "<no lookup>"

Label(name, id) == [name |-> name, id |-> id]

\* a request sent to the Gmail API: the method, the message id and the
\* label ids of the body
Request(api, id, remove, add) ==
    [api |-> api, id |-> id, remove |-> remove, add |-> add]

ListRequest == Request("labels.list", "", {}, {})

GetRequest(id) == Request("messages.get", id, {}, {})

ModifyRequest(id, remove, add) == Request("messages.modify", id, remove, add)

\* the labels of a message after a modify request that succeeds
Modified(box, id, remove, add) ==
    [box EXCEPT ![id] = (@ \ remove) \cup add]

\* self.label_id_map[label_name] = label['id']
Cached(map, label_name, id) ==
    [n \in DOMAIN map \cup {label_name} |->
         IF n = label_name THEN id ELSE map[n]]

\* the ids of the labels of the list whose name is label_name, whatever the
\* case, in the order of the list
RECURSIVE MatchingIds(_, _)
MatchingIds(labels, label_name) ==
    IF labels = <<>> THEN <<>>
    ELSE (IF upper(Head(labels).name) = upper(label_name.s)
          THEN <<Head(labels).id>> ELSE <<>>)
         \o MatchingIds(Tail(labels), label_name)

\* _get_label_id starts with  label_name in self.label_id_map, outside its
\* try block: an unhashable label_name raises TypeError
get_label_id_raises(label_name) == ~Hashable(label_name)

\* a _get_label_id that caches None for a name it did not find
get_label_id_CachesNotFound(label_name, list) ==
    IF get_label_id_raises(label_name)
    THEN [raised |-> TRUE, id |-> NoId, map |-> label_id_map, sent |-> <<>>]
    ELSE IF label_name \in DOMAIN label_id_map
    THEN [raised |-> FALSE, id |-> label_id_map[label_name],
          map |-> label_id_map, sent |-> <<>>]
    ELSE IF ~list.ok
    THEN [raised |-> FALSE, id |-> NoId, map |-> label_id_map,
          sent |-> <<ListRequest>>]
    ELSE LET found == IF IsStr(label_name)
                      THEN MatchingIds(list.labels, label_name)
                      ELSE <<>>
         IN  IF found = <<>>
             THEN [raised |-> FALSE, id |-> NoId,
                   map |-> Cached(label_id_map, label_name, NoId),
                   sent |-> <<ListRequest>>]
             ELSE [raised |-> FALSE, id |-> Head(found),
                   map |-> Cached(label_id_map, label_name, Head(found)),
                   sent |-> <<ListRequest>>]

\* GmailClient._get_label_id(label_name): id is the id returned (NoId for
\* None), map the cache and sent the requests after the call.  A cached
\* name is answered from the cache; else the labels are listed, and a name
\* that is no string makes label_name.upper() raise inside the try block.
get_label_id(label_name, list) ==
    IF get_label_id_raises(label_name)
    THEN [raised |-> TRUE, id |-> NoId, map |-> label_id_map, sent |-> <<>>]
    ELSE IF label_name \in DOMAIN label_id_map
    THEN [raised |-> FALSE, id |-> label_id_map[label_name],
          map |-> label_id_map, sent |-> <<>>]
    ELSE IF ~list.ok
    THEN [raised |-> FALSE, id |-> NoId, map |-> label_id_map,
          sent |-> <<ListRequest>>]
    ELSE LET found == IF IsStr(label_name)
                      THEN MatchingIds(list.labels, label_name)
                      ELSE <<>>
         IN  IF found = <<>>
             THEN [raised |-> FALSE, id |-> NoId, map |-> label_id_map,
                   sent |-> <<ListRequest>>]
             ELSE [raised |-> FALSE, id |-> Head(found),
                   map |-> Cached(label_id_map, label_name, Head(found)),
                   sent |-> <<ListRequest>>]

\* the labels the Gmail API returned to the label-list request among the
\* requests sent, if there is one and it succeeded
Listing(sent, resp) ==
    IF (\E i \in DOMAIN sent : sent[i] = ListRequest) /\ resp.list.ok
    THEN resp.list.labels ELSE <<>>

\* what a primitive gives: raised, the value returned, the label id it
\* resolved, and the cache, the messages and the requests sent after it
Outcome(raised, ret, label_id, map, box, sent) ==
    [raised |-> raised, ret |-> ret, label_id |-> label_id,
     label_id_map |-> map, mailbox |-> box, sent |-> sent]

mark_as_read(message_id, resp) ==
    Outcome(FALSE, resp.modify, NoLookup, label_id_map,
            IF resp.modify
            THEN Modified(mailbox, message_id, {"UNREAD"}, {})
            ELSE mailbox,
            <<ModifyRequest(message_id, {"UNREAD"}, {})>>)

\* mark_as_unread with the request body of mark_as_read
mark_as_unread_RemovesUnread(message_id, resp) ==
    Outcome(FALSE, resp.modify, NoLookup, label_id_map,
            IF resp.modify
            THEN Modified(mailbox, message_id, {"UNREAD"}, {})
            ELSE mailbox,
            <<ModifyRequest(message_id, {"UNREAD"}, {})>>)

mark_as_unread(message_id, resp) ==
    Outcome(FALSE, resp.modify, NoLookup, label_id_map,
            IF resp.modify
            THEN Modified(mailbox, message_id, {}, {"UNREAD"})
            ELSE mailbox,
            <<ModifyRequest(message_id, {}, {"UNREAD"})>>)

\* move_message with a modify request whatever _get_label_id returns
move_message_NoIdTest(message_id, destination_mailbox, resp) ==
    LET g == get_label_id(destination_mailbox, resp.list)
        labels_to_remove ==
            IF "INBOX" \in mailbox[message_id]
               /\ IsStr(destination_mailbox)
               /\ upper(destination_mailbox.s) /= <<"I", "N", "B", "O", "X">>
            THEN {"INBOX"} ELSE {}
    IN  IF g.raised
        THEN Outcome(TRUE, FALSE, NoId, label_id_map, mailbox, <<>>)
        ELSE IF ~resp.get
        THEN Outcome(FALSE, FALSE, g.id, g.map, mailbox,
                     g.sent \o <<GetRequest(message_id)>>)
        ELSE IF ~resp.modify
        THEN Outcome(FALSE, FALSE, g.id, g.map, mailbox,
                     g.sent \o <<GetRequest(message_id),
                                 ModifyRequest(message_id, labels_to_remove,
                                               {g.id})>>)
        ELSE Outcome(FALSE, TRUE, g.id, g.map,
                     Modified(mailbox, message_id, labels_to_remove, {g.id}),
                     g.sent \o <<GetRequest(message_id),
                                 ModifyRequest(message_id, labels_to_remove,
                                               {g.id})>>)

move_message(message_id, destination_mailbox, resp) ==
    LET g == get_label_id(destination_mailbox, resp.list)
        labels_to_remove ==
            IF "INBOX" \in mailbox[message_id]
               /\ upper(destination_mailbox.s) /= <<"I", "N", "B", "O", "X">>
            THEN {"INBOX"} ELSE {}
    IN  IF g.raised
        THEN Outcome(TRUE, FALSE, NoId, label_id_map, mailbox, <<>>)
        ELSE IF g.id = NoId
        THEN Outcome(FALSE, FALSE, NoId, g.map, mailbox, g.sent)
        ELSE IF ~resp.get
        THEN Outcome(FALSE, FALSE, g.id, g.map, mailbox,
                     g.sent \o <<GetRequest(message_id)>>)
        ELSE IF ~resp.modify
        THEN Outcome(FALSE, FALSE, g.id, g.map, mailbox,
                     g.sent \o <<GetRequest(message_id),
                                 ModifyRequest(message_id, labels_to_remove,
                                               {g.id})>>)
        ELSE Outcome(FALSE, TRUE, g.id, g.map,
                     Modified(mailbox, message_id, labels_to_remove, {g.id}),
                     g.sent \o <<GetRequest(message_id),
                                 ModifyRequest(message_id, labels_to_remove,
                                               {g.id})>>)

apply_label(message_id, label_name, resp) ==
    LET g == get_label_id(label_name, resp.list)
    IN  IF g.raised
        THEN Outcome(TRUE, FALSE, NoId, label_id_map, mailbox, <<>>)
        ELSE IF g.id = NoId
        THEN Outcome(FALSE, FALSE, NoId, g.map, mailbox, g.sent)
        ELSE IF ~resp.modify
        THEN Outcome(FALSE, FALSE, g.id, g.map, mailbox,
                     g.sent \o <<ModifyRequest(message_id, {}, {g.id})>>)
        ELSE Outcome(FALSE, TRUE, g.id, g.map,
                     Modified(mailbox, message_id, {}, {g.id}),
                     g.sent \o <<ModifyRequest(message_id, {}, {g.id})>>)

---------------------------------------------------------------------------
(* Action *)

Call(prim, id, target) == [prim |-> prim, id |-> id, target |-> target]

\* Action.execute without the test of self.value
Action_execute_NoTargetCheck(self, email_id, resp) ==
    LET Via(prim, target, r) ==
            [raised |-> r.raised, ret |-> r.ret,
             call |-> <<Call(prim, email_id, target)>>, warns |-> <<>>,
             label_id |-> r.label_id, label_id_map |-> r.label_id_map,
             mailbox |-> r.mailbox, sent |-> r.sent]
    IN  CASE self.action_type = "Mark as Read" ->
                 Via("mark_as_read", None, mark_as_read(email_id, resp))
          [] self.action_type = "Mark as Unread" ->
                 Via("mark_as_unread", None, mark_as_unread(email_id, resp))
          [] self.action_type = "Move Message" ->
                 Via("move_message", self.value,
                     move_message(email_id, self.value, resp))
          [] self.action_type = "Apply Label" ->
                 Via("apply_label", self.value,
                     apply_label(email_id, self.value, resp))
          [] OTHER -> [raised |-> FALSE, ret |-> FALSE, call |-> <<>>,
                       warns |-> <<ActionWarning(self.action_type)>>,
                       label_id |-> NoLookup,
                       label_id_map |-> label_id_map, mailbox |-> mailbox,
                       sent |-> <<>>]

\* Action.execute whose last branch marks the message read
Action_execute_DefaultRead(self, email_id, resp) ==
    LET Via(prim, target, r) ==
            [raised |-> r.raised, ret |-> r.ret,
             call |-> <<Call(prim, email_id, target)>>, warns |-> <<>>,
             label_id |-> r.label_id, label_id_map |-> r.label_id_map,
             mailbox |-> r.mailbox, sent |-> r.sent]
        Fail(w) == [raised |-> FALSE, ret |-> FALSE, call |-> <<>>,
                    warns |-> w, label_id |-> NoLookup,
                    label_id_map |-> label_id_map, mailbox |-> mailbox,
                    sent |-> <<>>]
    IN  CASE self.action_type = "Mark as Unread" ->
                 Via("mark_as_unread", None, mark_as_unread(email_id, resp))
          [] self.action_type = "Move Message" ->
                 IF Truthy(self.value)
                 THEN Via("move_message", self.value,
                          move_message(email_id, self.value, resp))
                 ELSE Fail(<<>>)
          [] self.action_type = "Apply Label" ->
                 IF Truthy(self.value)
                 THEN Via("apply_label", self.value,
                          apply_label(email_id, self.value, resp))
                 ELSE Fail(<<>>)
          [] OTHER -> Via("mark_as_read", None, mark_as_read(email_id, resp))

\* Action.execute(gmail_client, email_id).  raised: an exception leaves
\* execute; ret: the value returned; call: the calls made to the client
\* (target is None for the primitives that take none); warns: what was
\* given to logger.warning; label_id, label_id_map, mailbox, sent: what
\* the primitive called gives.
Action_execute(self, email_id, resp) ==
    LET Via(prim, target, r) ==
            [raised |-> r.raised, ret |-> r.ret,
             call |-> <<Call(prim, email_id, target)>>, warns |-> <<>>,
             label_id |-> r.label_id, label_id_map |-> r.label_id_map,
             mailbox |-> r.mailbox, sent |-> r.sent]
        Fail(w) == [raised |-> FALSE, ret |-> FALSE, call |-> <<>>,
                    warns |-> w, label_id |-> NoLookup,
                    label_id_map |-> label_id_map, mailbox |-> mailbox,
                    sent |-> <<>>]
    IN  CASE self.action_type = "Mark as Read" ->
                 Via("mark_as_read", None, mark_as_read(email_id, resp))
          [] self.action_type = "Mark as Unread" ->
                 Via("mark_as_unread", None, mark_as_unread(email_id, resp))
          [] self.action_type = "Move Message" ->
                 IF Truthy(self.value)
                 THEN Via("move_message", self.value,
                          move_message(email_id, self.value, resp))
                 ELSE Fail(<<>>)
          [] self.action_type = "Apply Label" ->
                 IF Truthy(self.value)
                 THEN Via("apply_label", self.value,
                          apply_label(email_id, self.value, resp))
                 ELSE Fail(<<>>)
          [] OTHER -> Fail(<<ActionWarning(self.action_type)>>)

---------------------------------------------------------------------------
(* Rule *)

RECURSIVE PyAll(_)
\* the Python builtin all() on a list of booleans
PyAll(bs) == IF bs = <<>> THEN TRUE ELSE Head(bs) /\ PyAll(Tail(bs))

RECURSIVE PyAny(_)
\* the Python builtin any()
PyAny(bs) == IF bs = <<>> THEN FALSE ELSE Head(bs) \/ PyAny(Tail(bs))

\* Rule.matches where a combinator other than "any" means "all"
Rule_matches_DefaultAll(self, evaluated) ==
    IF self.conditions = <<>>
    THEN [val |-> TRUE, warns |-> <<>>]
    ELSE IF self.overall_predicate = <<"a", "n", "y">>
         THEN [val |-> PyAny(evaluated), warns |-> <<>>]
         ELSE [val |-> PyAll(evaluated), warns |-> <<>>]

\* Rule.matches without the early return of a rule that has no condition
Rule_matches_NoEarlyReturn(self, evaluated) ==
    CASE self.overall_predicate = <<"a", "l", "l">> ->
             [val |-> PyAll(evaluated), warns |-> <<>>]
      [] self.overall_predicate = <<"a", "n", "y">> ->
             [val |-> PyAny(evaluated), warns |-> <<>>]
      [] OTHER ->
             [val |-> FALSE, warns |-> <<CombinatorWarning>>]

\* Rule.matches where "any" asks for every condition, as "all" does
Rule_matches_AnyAsAll(self, evaluated) ==
    IF self.conditions = <<>>
    THEN [val |-> TRUE, warns |-> <<>>]
    ELSE CASE self.overall_predicate = <<"a", "l", "l">> ->
                 [val |-> PyAll(evaluated), warns |-> <<>>]
           [] self.overall_predicate = <<"a", "n", "y">> ->
                 [val |-> PyAll(evaluated), warns |-> <<>>]
           [] OTHER ->
                 [val |-> FALSE, warns |-> <<CombinatorWarning>>]

\* Rule.matches once the conditions are evaluated: evaluated is the list
\* evaluated_conditions (empty when the rule has no condition)
Rule_matches(self, evaluated) ==
    IF self.conditions = <<>>
    THEN [val |-> TRUE, warns |-> <<>>]
    ELSE CASE self.overall_predicate = <<"a", "l", "l">> ->
                 [val |-> PyAll(evaluated), warns |-> <<>>]
           [] self.overall_predicate = <<"a", "n", "y">> ->
                 [val |-> PyAny(evaluated), warns |-> <<>>]
           [] OTHER ->
                 [val |-> FALSE, warns |-> <<CombinatorWarning>>]

\* Rule.__init__: the combinator is stored lowercased
Rule(description, overall_predicate, conditions, actions) ==
    [description |-> description,
     overall_predicate |-> lower(overall_predicate),
     conditions |-> conditions,
     actions |-> actions]

---------------------------------------------------------------------------
(* RuleEngine._load_rules.  The rule document is [exists, json_ok, doc]:   *)
(* whether the file exists, whether json.load accepts it, and the entries. *)
(* A string-valued key the entry lacks is NoKey, any other is Missing; a   *)
(* "conditions" or "actions" key the entry lacks is the empty list (what   *)
(* rule_data.get(..., []) gives).                                          *)

NoKey == "<no key>"

\* cond_data['field'], cond_data['predicate'], cond_data['value']
CondKeyError(cond_data) ==
    \/ cond_data.field = NoKey
    \/ cond_data.predicate = NoKey
    \/ cond_data.value = Missing

\* action_data['type']
ActionKeyError(action_data) == action_data.type = NoKey

\* overall_predicate.lower() in Rule.__init__ raises on a non-string
CombinatorError(rule_data) ==
    rule_data.overall_predicate.k \notin {"str", "missing"}

EntryError(rule_data) ==
    \/ \E i \in DOMAIN rule_data.conditions :
           CondKeyError(rule_data.conditions[i])
    \/ \E i \in DOMAIN rule_data.actions :
           ActionKeyError(rule_data.actions[i])
    \/ CombinatorError(rule_data)

LoadCondition(cond_data) ==
    [field |-> cond_data.field, predicate |-> cond_data.predicate,
     value |-> cond_data.value]

\* Action(action_type=action_data['type'], value=action_data.get('value'))
LoadAction(action_data) ==
    [action_type |-> action_data.type,
     value |-> IF action_data.value = Missing THEN None
               ELSE action_data.value]

\* the entry's Rule with "any" for the combinator the entry omits
LoadRule_DefaultAny(rule_data) ==
    Rule(IF rule_data.description = NoKey THEN "Untitled Rule"
         ELSE rule_data.description,
         IF rule_data.overall_predicate = Missing THEN <<"a", "n", "y">>
         ELSE rule_data.overall_predicate.s,
         [i \in DOMAIN rule_data.conditions |->
              LoadCondition(rule_data.conditions[i])],
         [i \in DOMAIN rule_data.actions |->
              LoadAction(rule_data.actions[i])])

\* the Rule of an entry: lines 353-376
LoadRule(rule_data) ==
    Rule(IF rule_data.description = NoKey THEN "Untitled Rule"
         ELSE rule_data.description,
         IF rule_data.overall_predicate = Missing THEN <<"a", "l", "l">>
         ELSE rule_data.overall_predicate.s,
         [i \in DOMAIN rule_data.conditions |->
              LoadCondition(rule_data.conditions[i])],
         [i \in DOMAIN rule_data.actions |->
              LoadAction(rule_data.actions[i])])

\* a loader that returns the rules built before the first entry in error
load_rules_KeepsLoaded(file) ==
    IF ~file.exists \/ ~file.json_ok THEN <<>>
    ELSE LET bad == {i \in DOMAIN file.doc : EntryError(file.doc[i])}
             n == IF bad = {} THEN Len(file.doc)
                  ELSE (CHOOSE i \in bad : \A j \in bad : i <= j) - 1
         IN  [i \in 1..n |-> LoadRule(file.doc[i])]

\* RuleEngine._load_rules: every exception after the test of the file's
\* existence is caught and gives the empty list
load_rules(file) ==
    IF ~file.exists \/ ~file.json_ok THEN <<>>
    ELSE IF \E i \in DOMAIN file.doc : EntryError(file.doc[i]) THEN <<>>
    ELSE [i \in DOMAIN file.doc |-> LoadRule(file.doc[i])]

---------------------------------------------------------------------------
(* DatabaseManager: the emails table of the SQLite database.  A TEXT       *)
(* column holds a string or NULL (None).  The text of a datetime is the    *)
(* digits of its whole days, a separator, the two digits of its hundredths *)
(* of a day and, for an aware datetime, the UTC offset; the text of a      *)
(* label list is the sequence of the characters "[", "," and "]" and of    *)
(* the quoted labels.                                                      *)

DigitChars == <<"0", "1", "2", "3", "4", "5", "6", "7", "8", "9">>

\* the decimal digits of n
RECURSIVE Digits(_)
Digits(n) ==
    IF n < 10 THEN <<DigitChars[n + 1]>>
    ELSE Append(Digits(n \div 10), DigitChars[(n % 10) + 1])

IsDigit(c) == \E d \in DOMAIN DigitChars : DigitChars[d] = c

DigitValue(c) == (CHOOSE d \in DOMAIN DigitChars : DigitChars[d] = c) - 1

\* the number a non-empty sequence of digits writes
RECURSIVE Number(_)
Number(s) ==
    IF Len(s) = 1 THEN DigitValue(s[1])
    ELSE 10 * Number(SubSeq(s, 1, Len(s) - 1)) + DigitValue(s[Len(s)])

\* the UTC offset isoformat writes at the end of an aware datetime
UtcOffset == "+00:00"

\* an isoformat that writes no UTC offset
isoformat_NoOffset(d, sep) ==
    Digits(d.n \div 100) \o <<sep>>
        \o <<DigitChars[((d.n % 100) \div 10) + 1],
             DigitChars[(d.n % 10) + 1]>>

\* datetime.isoformat(sep)
isoformat(d, sep) ==
    Digits(d.n \div 100) \o <<sep>>
        \o <<DigitChars[((d.n % 100) \div 10) + 1],
             DigitChars[(d.n % 10) + 1]>>
        \o (IF d.k = "datetime" THEN <<UtcOffset>> ELSE <<>>)

\* datetime.fromisoformat(text): ok is FALSE where it raises ValueError
fromisoformat(text) ==
    LET aware == text /= <<>> /\ text[Len(text)] = UtcOffset
        body == IF aware THEN SubSeq(text, 1, Len(text) - 1) ELSE text
        n == Len(body)
        wellFormed ==
            /\ n >= 4
            /\ body[n - 2] \in {"T", " "}
            /\ \A i \in (1..n) \ {n - 2} : IsDigit(body[i])
        t == 100 * Number(SubSeq(body, 1, n - 3))
                 + Number(SubSeq(body, n - 1, n))
    IN  IF ~wellFormed THEN [ok |-> FALSE, val |-> None]
        ELSE [ok |-> TRUE,
              val |-> IF aware THEN DateTime(t) ELSE NaiveDateTime(t)]

\* the text of the labels, separated by commas
RECURSIVE JoinLabels(_)
JoinLabels(labels) ==
    IF labels = <<>> THEN <<>>
    ELSE <<"\"", Head(labels), "\"">>
         \o (IF Len(labels) = 1 THEN <<>> ELSE <<",">>)
         \o JoinLabels(Tail(labels))

\* json.dumps of a list of strings
json_dumps(labels) == Str(<<"[">> \o JoinLabels(labels) \o <<"]">>)

\* the labels a comma-separated text writes; ok is FALSE for a text that
\* is none
RECURSIVE ParseLabels(_)
ParseLabels(text) ==
    IF Len(text) < 3 \/ text[1] /= "\"" \/ text[3] /= "\""
    THEN [ok |-> FALSE, labels |-> <<>>]
    ELSE IF Len(text) = 3 THEN [ok |-> TRUE, labels |-> <<text[2]>>]
    ELSE IF text[4] /= "," THEN [ok |-> FALSE, labels |-> <<>>]
    ELSE LET rest == ParseLabels(SubSeq(text, 5, Len(text)))
         IN  [ok |-> rest.ok, labels |-> <<text[2]>> \o rest.labels]

\* json.loads of a text: ok is FALSE where it raises JSONDecodeError
json_loads(text) ==
    IF Len(text) < 2 \/ text[1] /= "[" \/ text[Len(text)] /= "]"
    THEN [ok |-> FALSE, labels |-> <<>>]
    ELSE IF Len(text) = 2 THEN [ok |-> TRUE, labels |-> <<>>]
    ELSE ParseLabels(SubSeq(text, 2, Len(text) - 1))

\* the dictionary Email.to_dict() gives and insert_email takes
EmailData(id, sender, subject, received, body, labels) ==
    [id |-> id, threadId |-> "t", From |-> sender, Subject |-> subject,
     ReceivedDateTime |-> received, MessageBody |-> body,
     labelIds |-> labels]

\* a row of the emails table
Row(id, thread_id, sender, subject, received, body, labels) ==
    [id |-> id, thread_id |-> thread_id, from |-> sender,
     subject |-> subject, received_date_time |-> received,
     message_body |-> body, label_ids |-> labels]

\* sqlite3 binds None, strings and, through its default adapter,
\* datetimes; it refuses a list or a dict with an sqlite3.Error
Bindable(v) == v.k \in {"none", "str", "datetime", "naive"}

\* the value sqlite3 stores for a parameter: a datetime is adapted to
\* isoformat(" ")
Bound(v) == IF IsDateTime(v) THEN Str(isoformat(v, " ")) ELSE v

RowBindable(params) ==
    /\ Bindable(params.from)
    /\ Bindable(params.subject)
    /\ Bindable(params.received_date_time)
    /\ Bindable(params.message_body)

BoundRow(params) ==
    Row(params.id, params.thread_id, Bound(params.from),
        Bound(params.subject), Bound(params.received_date_time),
        Bound(params.message_body), params.label_ids)

\* INSERT INTO emails without OR REPLACE, were id no primary key
InsertOrReplace_Append(rows, row) == Append(rows, row)

\* INSERT OR REPLACE INTO emails: the row that has the id is deleted and
\* the new row is added
InsertOrReplace(rows, row) ==
    SelectSeq(rows, LAMBDA r : r.id /= row.id) \o <<row>>

\* what a DatabaseManager method gives: raised, the value returned and the
\* rows of the table after it
DbOutcome(raised, ret, rows) ==
    [raised |-> raised, ret |-> ret, table |-> rows]

\* the parameters insert_email binds: lines 82-103
InsertEmailParams(email_data) ==
    LET received_dt == email_data.ReceivedDateTime
        received_date_time_str ==
            IF IsDateTime(received_dt)
            THEN Str(isoformat(received_dt, "T"))
            ELSE IF IsStr(received_dt) THEN received_dt ELSE None
    IN  Row(email_data.id, email_data.threadId, email_data.From,
            email_data.Subject, received_date_time_str,
            email_data.MessageBody, json_dumps(email_data.labelIds))

\* DatabaseManager.insert_email(email_data).  On a closed connection
\* cursor.execute raises sqlite3.ProgrammingError, and so does the
\* self.conn.rollback() of the handler: that one leaves the method.
insert_email(email_data) ==
    LET params == InsertEmailParams(email_data)
    IN  IF conn = "closed" THEN DbOutcome(TRUE, FALSE, table)
        ELSE IF ~RowBindable(params) THEN DbOutcome(FALSE, FALSE, table)
        ELSE DbOutcome(FALSE, TRUE,
                       InsertOrReplace(table, BoundRow(params)))

\* the parameters insert_many_emails binds for one email: lines 131-141
InsertManyParams(email_data) ==
    Row(email_data.id, email_data.threadId, email_data.From,
        email_data.Subject, email_data.ReceivedDateTime,
        email_data.MessageBody, json_dumps(email_data.labelIds))

\* cursor.executemany: the rows are written in order until sqlite3 refuses
\* one; ok is FALSE where it raises sqlite3.Error
RECURSIVE ExecuteMany(_, _)
ExecuteMany(rows, data_to_insert) ==
    IF data_to_insert = <<>> THEN [ok |-> TRUE, table |-> rows]
    ELSE IF ~RowBindable(Head(data_to_insert))
    THEN [ok |-> FALSE, table |-> rows]
    ELSE ExecuteMany(InsertOrReplace(rows, BoundRow(Head(data_to_insert))),
                     Tail(data_to_insert))

\* an insert_many_emails that commits what was written when a row fails
insert_many_emails_NoRollback(email_data_list) ==
    LET data_to_insert ==
            [i \in DOMAIN email_data_list |->
                InsertManyParams(email_data_list[i])]
        done == ExecuteMany(table, data_to_insert)
    IN  IF email_data_list = <<>> THEN DbOutcome(FALSE, 0, table)
        ELSE IF conn = "closed" THEN DbOutcome(TRUE, 0, table)
        ELSE IF ~done.ok THEN DbOutcome(FALSE, 0, done.table)
        ELSE DbOutcome(FALSE, Len(email_data_list), done.table)

\* DatabaseManager.insert_many_emails(email_data_list).  On a closed
\* connection cursor.executemany raises sqlite3.ProgrammingError, and so
\* does the self.conn.rollback() of the handler: that one leaves the
\* method.
insert_many_emails(email_data_list) ==
    LET data_to_insert ==
            [i \in DOMAIN email_data_list |->
                InsertManyParams(email_data_list[i])]
        done == ExecuteMany(table, data_to_insert)
    IN  IF email_data_list = <<>> THEN DbOutcome(FALSE, 0, table)
        ELSE IF conn = "closed" THEN DbOutcome(TRUE, 0, table)
        ELSE IF ~done.ok THEN DbOutcome(FALSE, 0, table)
        ELSE DbOutcome(FALSE, Len(email_data_list), done.table)

\* the dictionary get_all_emails makes of a row: lines 174-187
RowDict(row) ==
    LET received == row.received_date_time
        labels == row.label_ids
    IN  [row EXCEPT
            !.received_date_time =
                IF Truthy(received) THEN fromisoformat(received.s).val
                ELSE received,
            !.label_ids =
                IF Truthy(labels) /\ json_loads(labels.s).ok
                THEN json_loads(labels.s).labels ELSE <<>>]

\* DatabaseManager.get_all_emails().  The sqlite3.Error of a closed
\* connection is caught and gives []; the ValueError of fromisoformat on a
\* text that is no ISO date leaves the method.
get_all_emails ==
    IF conn = "closed" THEN DbOutcome(FALSE, <<>>, table)
    ELSE IF \E i \in DOMAIN table :
                /\ Truthy(table[i].received_date_time)
                /\ ~fromisoformat(table[i].received_date_time.s).ok
    THEN DbOutcome(TRUE, <<>>, table)
    ELSE DbOutcome(FALSE, [i \in DOMAIN table |-> RowDict(table[i])],
                   table)

\* Email.from_db_row raises ValueError for a date text that is no ISO date
from_db_row_raises(row_dict) ==
    /\ IsStr(row_dict.received_date_time)
    /\ Truthy(row_dict.received_date_time)
    /\ ~fromisoformat(row_dict.received_date_time.s).ok

\* Email.from_db_row(row_dict)
from_db_row(row_dict) ==
    LET received == row_dict.received_date_time
        received_dt ==
            IF ~Truthy(received) THEN None
            ELSE IF IsStr(received) THEN fromisoformat(received.s).val
            ELSE IF IsDateTime(received) THEN received
            ELSE None
    IN  [id |-> row_dict.id, thread_id |-> row_dict.thread_id,
         from_address |-> row_dict.from, subject |-> row_dict.subject,
         received_date_time |-> received_dt,
         message_body |-> row_dict.message_body,
         label_ids |-> row_dict.label_ids]

---------------------------------------------------------------------------
(* The inputs the specifications draw from. *)

SeqsUpTo(S, n) == UNION {[1..m -> S] : m \in 0..n}

Email(id, from_address, subject, received_date_time, message_body) ==
    [id |-> id, from_address |-> from_address, subject |-> subject,
     received_date_time |-> received_date_time,
     message_body |-> message_body]

CondData(field, predicate, value) ==
    [field |-> field, predicate |-> predicate, value |-> value]

ActionData(type, value) == [type |-> type, value |-> value]

RuleData(description, overall_predicate, conditions, actions) ==
    [description |-> description, overall_predicate |-> overall_predicate,
     conditions |-> conditions, actions |-> actions]

RulesFile(doc) == [exists |-> TRUE, json_ok |-> TRUE, doc |-> doc]

NoRulesFile == [exists |-> FALSE, json_ok |-> FALSE, doc |-> <<>>]

BadJsonFile == [exists |-> TRUE, json_ok |-> FALSE, doc |-> <<>>]

Fields == {"From", "Subject", "Message", "Received Date/Time"}

Predicates == {"contains", "does not contain", "equals", "does not equal",
               "less than", "greater than"}

ActionTypes == {"Mark as Read", "Mark as Unread", "Move Message",
                "Apply Label"}

\* the emails of a batch
EmailPool ==
    { Email("m1", Str(<<"a", "b">>), Str(<<"A">>),
            DateTime(StartTime - 100), Str(<<"b">>)),
      Email("m2", None, Str(<<"b">>), None, None),
      Email("m3", Str(<<"A", "B">>), Str(<<"a">>),
            NaiveDateTime(StartTime - 50), Str(<<>>)),
      Email("m4", Str(<<"b">>), Str(<<"a">>),
            DateTime(StartTime - 3100), Str(<<"a">>)) }

\* the entries of a rule document
RuleDataPool ==
    { RuleData("r1", Str(<<"a", "l", "l">>),
               <<CondData("From", "contains", Str(<<"A">>))>>,
               <<ActionData("Mark as Read", Missing)>>),
      RuleData("r2", Str(<<"A", "N", "Y">>),
               <<CondData("Subject", "equals", Str(<<"a">>)),
                 CondData("Received Date/Time", "less than", Days(1))>>,
               <<ActionData("Move Message", Str(<<"b">>)),
                 ActionData("Mark as Unread", Missing)>>),
      RuleData(NoKey, Missing, <<>>,
               <<ActionData("Apply Label", Missing),
                 ActionData("Archive", Missing)>>),
      RuleData("r4", Str(<<"x">>),
               <<CondData("Message", "does not contain", Str(<<"a">>))>>,
               <<ActionData("Mark as Read", Missing)>>),
      RuleData("r5", Missing,
               <<CondData("Message", "contains", Days(1))>>,
               <<ActionData("Mark as Read", Missing)>>),
      RuleData("r6", Missing, <<>>,
               <<ActionData("Apply Label", List),
                 ActionData("Mark as Read", Missing)>>),
      RuleData("r7", Missing,
               <<CondData("Sender", "does not equal", Str(<<"a">>))>>,
               <<ActionData("Mark as Unread", Missing)>>),
      RuleData("r8", Missing,
               <<CondData("From", "contains", Missing)>>,
               <<ActionData("Mark as Read", Missing)>>) }

\* the values a condition of a rule document can carry
CondValues ==
    { None, Str(<<>>), Str(<<"a">>), Str(<<"A">>), Str(<<"a", "b">>),
      Days(1), Months(1), Days((StartTime \div 100) + 1), DaysText, List }

CondSpace ==
    { CondData(f, p, v) : f \in Fields \cup {"Sender"},
                          p \in Predicates \cup {"matches"},
                          v \in CondValues }

EmailSpace ==
    { Email("m1", f, s, d, b) :
        f \in {None, Str(<<"a">>), Str(<<"A", "b">>)},
        s \in {Str(<<>>), Str(<<"b", "a">>)},
        d \in {None, DateTime(StartTime - 100), DateTime(StartTime - 99),
               DateTime(StartTime - ApproxDaysPerMonth),
               NaiveDateTime(StartTime - 100)},
        b \in {None, Str(<<"a", "b">>)} }

\* the conditions of the rules of SpecRule
CondPool ==
    { CondData("From", "contains", Str(<<"a">>)),
      CondData("Subject", "does not equal", Str(<<"A">>)),
      CondData("Message", "equals", None),
      CondData("Received Date/Time", "greater than", Days(1)),
      CondData("Sender", "equals", Str(<<"a">>)),
      CondData("Subject", "matches", Str(<<"a">>)) }

Combinators ==
    { Missing, Str(<<"a", "l", "l">>), Str(<<"A", "L", "L">>),
      Str(<<"a", "n", "y">>), Str(<<"x">>) }

\* the entries of the rule documents of SpecLoad
LoadPool ==
    { RuleData("r1", Str(<<"a", "n", "y">>),
               <<CondData("From", "contains", Str(<<"a">>))>>,
               <<ActionData("Mark as Read", Missing)>>),
      RuleData("r2", Str(<<"A", "L", "L">>),
               <<CondData("Subject", "equals", Str(<<"a">>)),
                 CondData("From", "does not equal", None)>>,
               <<ActionData("Apply Label", Str(<<"b">>)),
                 ActionData("Move Message", Missing)>>),
      RuleData(NoKey, Missing, <<>>,
               <<ActionData("Mark as Unread", Missing)>>),
      RuleData("r4", Missing,
               <<CondData(NoKey, "contains", Str(<<"a">>))>>,
               <<ActionData("Mark as Read", Missing)>>),
      RuleData("r5", Missing,
               <<CondData("From", NoKey, Str(<<"a">>))>>,
               <<ActionData("Mark as Read", Missing)>>),
      RuleData("r6", Missing,
               <<CondData("From", "contains", Missing)>>,
               <<ActionData("Mark as Read", Missing)>>),
      RuleData("r7", Missing, <<>>,
               <<ActionData(NoKey, Str(<<"b">>))>>),
      RuleData("r8", None, <<>>,
               <<ActionData("Mark as Read", Missing)>>) }

\* the entries of the rule documents of SpecBatch: a rule on the sender, a
\* rule without conditions, and an entry the loader refuses
BatchRulePool ==
    { RuleData("r1", Missing,
               <<CondData("From", "contains", Str(<<"a">>))>>,
               <<ActionData("Mark as Read", Missing)>>),
      RuleData("r2", Str(<<"a", "n", "y">>), <<>>,
               <<ActionData("Apply Label", Str(<<"b">>))>>),
      RuleData("r3", Missing,
               <<CondData("From", "contains", Missing)>>,
               <<ActionData("Mark as Read", Missing)>>) }

\* the entries of the rule documents of SpecRead: rules that set the read
\* state of the emails they match, one way or the other
ReadRulePool ==
    { RuleData("r1", Missing,
               <<CondData("From", "contains", Str(<<"a">>))>>,
               <<ActionData("Mark as Read", Missing)>>),
      RuleData("r2", Str(<<"a", "n", "y">>), <<>>,
               <<ActionData("Mark as Unread", Missing)>>),
      RuleData("r3", Missing, <<>>,
               <<ActionData("Mark as Unread", Missing),
                 ActionData("Mark as Read", Missing)>>) }

\* the dictionaries given to insert_email: two ids, a timestamp that is an
\* aware datetime, a naive one, absent or an ISO text, and a subject that
\* sqlite3 cannot bind
EmailDataPool ==
    { EmailData("m1", Str(<<"a">>), Str(<<"b">>),
                DateTime(StartTime - 100), Str(<<"b">>),
                <<"INBOX", "UNREAD">>),
      EmailData("m1", Str(<<"b">>), Str(<<>>),
                NaiveDateTime(StartTime - 50), None, <<>>),
      EmailData("m2", None, Str(<<"a">>), None, Str(<<"a">>),
                <<"INBOX">>),
      EmailData("m2", Str(<<"a">>), Str(<<"a">>),
                Str(isoformat(DateTime(StartTime - 3100), "T")),
                Str(<<"a">>), <<"Label_1">>),
      EmailData("m2", Str(<<"a">>), List, DateTime(StartTime - 100),
                Str(<<"a">>), <<"INBOX">>) }

\* the dictionaries of the lists given to insert_many_emails: what
\* Email.to_dict() gives, a datetime left as it is, and a subject that
\* sqlite3 cannot bind
BulkPool ==
    { EmailData("m1", Str(<<"a">>), Str(<<"b">>),
                Str(isoformat(DateTime(StartTime - 100), "T")),
                Str(<<"b">>), <<"INBOX", "UNREAD">>),
      EmailData("m1", Str(<<"b">>), Str(<<"b">>),
                NaiveDateTime(StartTime - 50), None, <<>>),
      EmailData("m2", Str(<<"a">>), List, None, Str(<<"a">>),
                <<"INBOX">>) }

\* the actions of the rules of SpecLabel: label actions on a name the
\* account may have, in two spellings, and on one it never has
LabelActionPool ==
    { ActionData("Apply Label", Str(<<"b">>)),
      ActionData("Move Message", Str(<<"b">>)),
      ActionData("Move Message", Str(<<"B">>)),
      ActionData("Apply Label", Str(<<"x">>)),
      ActionData("Move Message", Str(<<"i", "n", "b", "o", "x">>)) }

\* the conditions of the rules of SpecClock: both date predicates for one
\* duration, and "greater than" for another
ClockCondPool ==
    { CondData("Received Date/Time", "less than", Days(1)),
      CondData("Received Date/Time", "greater than", Days(1)),
      CondData("Received Date/Time", "greater than", Days(2)) }

\* the emails of SpecClock: received around one day before the batch starts
ClockEmailPool ==
    { Email("m1", Str(<<"a">>), Str(<<"a">>), DateTime(StartTime - d),
            Str(<<"a">>)) : d \in {98, 99, 100, 101} }

\* the fields of an email that hold text
TextFields == {"From", "Subject", "Message"}

\* the condition lists of SpecTwin: "contains" and "does not contain" on
\* one text field for one string value, in either order
TwinCondPool ==
    { <<CondData(f, p, v), CondData(f, q, v)>> :
        f \in TextFields,
        p \in {"contains", "does not contain"},
        q \in {"contains", "does not contain"},
        v \in {Str(<<>>), Str(<<"a">>), Str(<<"A">>), Str(<<"a", "b">>)} }

\* the emails of SpecTwin: text fields that are present or absent
TwinEmailPool == {e \in EmailSpace : e.received_date_time = None}

\* the emails the database of SpecScript may hold, as insert_email was
\* given them: one with text in every field, one with absent fields
StoredPool ==
    { EmailData("m1", Str(<<"a", "b">>), Str(<<"A">>),
                DateTime(StartTime - 100), Str(<<"b">>),
                <<"INBOX", "UNREAD">>),
      EmailData("m2", None, Str(<<"b">>), None, None, <<"INBOX">>) }

\* the entries of the rule documents of SpecScript: a rule on the sender
\* and a rule whose condition value is no string
ScriptRulePool ==
    { RuleData("r1", Missing,
               <<CondData("From", "contains", Str(<<"a">>))>>,
               <<ActionData("Mark as Read", Missing)>>),
      RuleData("r5", Missing,
               <<CondData("Message", "contains", Days(1))>>,
               <<ActionData("Mark as Read", Missing)>>) }

\* the actions of the rules of SpecTarget: label actions with and without
\* a target, and actions of a type the engine does not know
TargetActionPool ==
    { ActionData("Move Message", Missing),
      ActionData("Apply Label", Missing),
      ActionData("Move Message", Str(<<>>)),
      ActionData("Apply Label", Str(<<"b">>)),
      ActionData("Archive", Missing),
      ActionData("Archive", Str(<<"b">>)),
      ActionData("Mark as Read", Missing) }

\* the emails of the batches of SpecBatch
BatchEmailPool == {e \in EmailPool : e.id \in {"m1", "m2"}}

\* the actions of the rules of SpecAction
ActionSpace ==
    { ActionData(t, v) : t \in ActionTypes \cup {"Archive"},
                         v \in {Missing, Str(<<>>), Str(<<"b">>), List} }

---------------------------------------------------------------------------
(* The state after RuleEngine(rules_file) is constructed and a batch is    *)
(* at hand, before process_emails is called.                               *)

NoCond == [field |-> "", predicate |-> "", value |-> None]

NoEmail == Email("", None, None, None, None)

NoAction == [action_type |-> "", value |-> None]

NoEval == [valid |-> FALSE, cond |-> NoCond, email |-> NoEmail,
           raised |-> FALSE, val |-> FALSE, warns |-> <<>>]

NoExec == [valid |-> FALSE, action |-> NoAction, ai |-> 0, email_id |-> "",
           raised |-> FALSE, ret |-> FALSE, call |-> <<>>, warns |-> <<>>,
           label_id |-> NoLookup, sent |-> <<>>, listed |-> <<>>]

NoRun == [state |-> "none", ei |-> 0, ri |-> 0, results |-> <<>>,
          ret |-> FALSE]

\* the ids of the messages the mail service holds
MessageIds == {e.id : e \in EmailPool}

\* the labels of a message that is in the inbox and was not read
Unread == {"INBOX", "UNREAD"}

\* the labels of a message that is in the inbox and was read
Read == {"INBOX"}

\* the answers of the Gmail API to labels().list: an error, an account
\* without the label, and accounts that have it
ListResponses ==
    { ListFails,
      Listed(<<Label(<<"I", "N", "B", "O", "X">>, "INBOX")>>),
      Listed(<<Label(<<"I", "N", "B", "O", "X">>, "INBOX"),
               Label(<<"B">>, "Label_1"), Label(<<"b">>, "Label_2")>>) }

\* the answers of the Gmail API to the requests of one call of a primitive
Responses ==
    [list : ListResponses, get : BOOLEAN, modify : BOOLEAN]

\* no DatabaseManager call was made yet
NoDbCall == [op |-> "none", arg |-> <<>>, raised |-> FALSE, ok |-> FALSE,
             count |-> 0, rows |-> <<>>, before |-> <<>>,
             conn |-> "none"]

\* a DatabaseManager whose connection is as c says, over a database that
\* holds rows, and process_stored_emails at position at
StoreStart(c, rows, at) ==
    /\ conn = c
    /\ table = rows
    /\ inserted = [id \in {} |-> NoEmail]
    /\ lastDb = NoDbCall
    /\ ndb = 0
    /\ script = at
    /\ closes = 0

\* a RuleEngine whose rules are loaded, a new GmailClient and a mail
\* service that holds the messages as box says, with process_emails at
\* position at
EngineStart(file, loaded, batch, box, at) ==
    /\ rules_data = file
    /\ rules = loaded
    /\ emails = batch
    /\ now = StartTime
    /\ pc = at
    /\ ei = 0
    /\ ri = 0
    /\ evaluated_conditions = <<>>
    /\ ai = 0
    /\ all_succeeded = TRUE
    /\ calls = <<>>
    /\ warnings = <<>>
    /\ lastEval = NoEval
    /\ match_log = <<>>
    /\ lastExec = NoExec
    /\ lastRun = NoRun
    /\ stdout = <<>>
    /\ label_id_map = [n \in {} |-> NoId]
    /\ mailbox = box
    /\ requests = <<>>

\* process_emails is about to be called on a batch; no database is open
StartWith(file, batch, box) ==
    /\ EngineStart(file, load_rules(file), batch, box, "start")
    /\ StoreStart("none", <<>>, "none")

\* a new DatabaseManager over an empty database; no rule engine runs
InitDb ==
    /\ EngineStart(NoRulesFile, <<>>, <<>>, [id \in MessageIds |-> Unread],
                   "idle")
    /\ StoreStart("open", <<>>, "none")

Start(file, batch) ==
    StartWith(file, batch, [id \in MessageIds |-> Unread])

\* one email against rules that mark it as read or as unread, the messages
\* of the mailbox being all read or all unread before the run
InitRead ==
    \E d \in SeqsUpTo(ReadRulePool, MaxRules),
       e \in BatchEmailPool,
       labels \in {Read, Unread} :
        StartWith(RulesFile(d), <<e>>, [id \in MessageIds |-> labels])

\* one email against one rule, over the lists of label actions
InitLabel ==
    \E cs \in SeqsUpTo({CondData("From", "contains", Str(<<"a">>))}, 1),
       as \in SeqsUpTo(LabelActionPool, MaxActs),
       e \in BatchEmailPool :
        Start(RulesFile(<<RuleData(NoKey, Missing, cs, as)>>), <<e>>)

\* one email received about a day ago against one rule of date conditions
InitClock ==
    \E o \in {Str(<<"a", "l", "l">>), Str(<<"a", "n", "y">>)},
       cs \in SeqsUpTo(ClockCondPool, MaxConds),
       e \in ClockEmailPool :
        Start(RulesFile(<<RuleData(NoKey, o, cs,
                                   <<ActionData("Mark as Read", Missing)>>)>>),
              <<e>>)

\* one email against one rule of two containment conditions
InitTwin ==
    \E o \in {Str(<<"a", "l", "l">>), Str(<<"a", "n", "y">>)},
       cs \in TwinCondPool,
       as \in SeqsUpTo({ActionData("Mark as Read", Missing)}, MaxActs),
       e \in TwinEmailPool :
        Start(RulesFile(<<RuleData(NoKey, o, cs, as)>>), <<e>>)

\* process_stored_emails is about to run: a rules file and a database file
\* that holds the stored emails; nothing is constructed yet
InitScript ==
    \E file \in {NoRulesFile}
                \cup {RulesFile(d) :
                         d \in SeqsUpTo(ScriptRulePool, MaxRules)},
       stored \in SeqsUpTo(StoredPool, MaxEmails) :
        /\ EngineStart(file, <<>>, <<>>, [id \in MessageIds |-> Unread],
                       "idle")
        /\ StoreStart("none",
                      ExecuteMany(<<>>, [i \in DOMAIN stored |->
                                            InsertEmailParams(stored[i])])
                          .table,
                      "start")

\* one email against one rule, over lists of actions that lack a target
\* or have an unknown type
InitTarget ==
    \E cs \in SeqsUpTo({CondData("From", "contains", Str(<<"a">>))}, 1),
       as \in SeqsUpTo(TargetActionPool, MaxActs),
       e \in EmailPool :
        Start(RulesFile(<<RuleData(NoKey, Missing, cs, as)>>), <<e>>)

\* a batch of emails against a rule document
Init ==
    \E file \in {NoRulesFile, BadJsonFile}
                \cup {RulesFile(d) : d \in SeqsUpTo(RuleDataPool, MaxRules)},
       batch \in SeqsUpTo(EmailPool, MaxEmails) :
        Start(file, batch)

\* one email against one rule of one condition
InitCond ==
    \E c \in CondSpace, e \in EmailSpace :
        Start(RulesFile(<<RuleData(NoKey, Missing, <<c>>,
                                   <<ActionData("Mark as Read", Missing)>>)>>),
              <<e>>)

\* one email against one rule, over the combinators and condition lists
InitRule ==
    \E o \in Combinators, cs \in SeqsUpTo(CondPool, MaxConds),
       as \in SeqsUpTo({ActionData("Mark as Unread", Missing)}, 1),
       e \in EmailPool :
        Start(RulesFile(<<RuleData(NoKey, o, cs, as)>>), <<e>>)

\* one email against one rule, over the action lists
InitAction ==
    \E cs \in SeqsUpTo({CondData("From", "contains", Str(<<"a">>))}, 1),
       as \in SeqsUpTo(ActionSpace, MaxActs),
       e \in EmailPool :
        Start(RulesFile(<<RuleData(NoKey, Missing, cs, as)>>), <<e>>)

\* one email against the rule documents of the loader
InitLoad ==
    \E file \in {NoRulesFile, BadJsonFile}
                \cup {RulesFile(d) : d \in SeqsUpTo(LoadPool, MaxRules)},
       batch \in SeqsUpTo({CHOOSE e \in EmailPool : e.id = "m1"}, 1) :
        Start(file, batch)

\* batches, the empty one included, against rule documents, the empty and
\* the refused ones included
InitBatch ==
    \E file \in {NoRulesFile, BadJsonFile}
                \cup {RulesFile(d) :
                         d \in SeqsUpTo(BatchRulePool, MaxRules)},
       batch \in SeqsUpTo(BatchEmailPool, MaxEmails) :
        Start(file, batch)

---------------------------------------------------------------------------
(* RuleEngine.process_emails, one step per call it makes. *)

\* a line given to print: its kind, the email id and the rule description
\* or action type it names, and the counts it names
PrintLine(kind, id, what, counts) ==
    [kind |-> kind, id |-> id, what |-> what, counts |-> counts]

\* "No rules loaded. Skipping email processing."
NoRulesLine == PrintLine("no_rules", "", "", <<>>)

\* "Starting to process {len(emails)} emails with {len(self.rules)} rules..."
StartingLine(n, m) == PrintLine("starting", "", "", <<n, m>>)

\* "Processing email ID: {email_obj.id}, Subject: ..."
ProcessingLine(id) == PrintLine("processing", id, "", <<>>)

\* "  Email matches rule: '{rule.description}'"
MatchesLine(description) == PrintLine("matches", "", description, <<>>)

\* "  Email does NOT match rule: '{rule.description}'"
NoMatchLine(description) == PrintLine("no_match", "", description, <<>>)

\* "Executing actions for email {email_id} based on rule: ..."
ExecutingLine(id, description) ==
    PrintLine("executing", id, description, <<>>)

\* "Action '{action.action_type}' failed for email {email_id}."
FailedLine(action_type, id) == PrintLine("failed", id, action_type, <<>>)

\* "Email processing complete."
CompleteLine == PrintLine("complete", "", "", <<>>)

\* the position after the rule at (ei, ri) is dealt with; out is what has
\* been printed so far
Advance(out) ==
    /\ evaluated_conditions' = <<>>
    /\ IF ri < Len(rules)
       THEN pc' = "match" /\ ri' = ri + 1 /\ ei' = ei /\ stdout' = out
       ELSE IF ei < Len(emails)
            THEN /\ pc' = "match" /\ ri' = 1 /\ ei' = ei + 1
                 /\ stdout' = Append(out, ProcessingLine(emails[ei + 1].id))
            ELSE /\ pc' = "done" /\ ri' = ri /\ ei' = ei
                 /\ stdout' = Append(out, CompleteLine)

\* process_emails without its test of an empty rule list: the loop over
\* the emails runs, and the loop over the rules has nothing to do
ProcessEmails_NoRulesTest ==
    /\ pc = "start"
    /\ IF rules = <<>> \/ emails = <<>>
       THEN /\ pc' = "done" /\ UNCHANGED <<ei, ri>>
            /\ stdout' = stdout
                   \o <<StartingLine(Len(emails), Len(rules))>>
                   \o [i \in DOMAIN emails |-> ProcessingLine(emails[i].id)]
                   \o <<CompleteLine>>
       ELSE /\ pc' = "match" /\ ei' = 1 /\ ri' = 1
            /\ stdout' = stdout \o
                   <<StartingLine(Len(emails), Len(rules)),
                     ProcessingLine(emails[1].id)>>
    /\ UNCHANGED <<rules_data, rules, emails, now, evaluated_conditions, ai,
                   all_succeeded, calls, warnings, lastEval, match_log,
                   lastExec, lastRun, label_id_map, mailbox, requests>>
    /\ UNCHANGED store_vars

\* process_emails is called: lines 396-401
ProcessEmails ==
    /\ pc = "start"
    /\ IF rules = <<>>
       THEN /\ pc' = "skipped" /\ UNCHANGED <<ei, ri>>
            /\ stdout' = Append(stdout, NoRulesLine)
       ELSE IF emails = <<>>
            THEN /\ pc' = "done" /\ UNCHANGED <<ei, ri>>
                 /\ stdout' = stdout \o <<StartingLine(0, Len(rules)),
                                           CompleteLine>>
            ELSE /\ pc' = "match" /\ ei' = 1 /\ ri' = 1
                 /\ stdout' = stdout \o
                        <<StartingLine(Len(emails), Len(rules)),
                          ProcessingLine(emails[1].id)>>
    /\ UNCHANGED <<rules_data, rules, emails, now, evaluated_conditions, ai,
                   all_succeeded, calls, warnings, lastEval, match_log,
                   lastExec, lastRun, label_id_map, mailbox, requests>>
    /\ UNCHANGED store_vars

\* Rule.matches evaluates its next condition: line 288
EvaluateCondition ==
    /\ pc = "match"
    /\ Len(evaluated_conditions) < Len(rules[ri].conditions)
    /\ \E t \in now..(StartTime + MaxDrift) :
        LET condition == rules[ri].conditions[Len(evaluated_conditions) + 1]
            r == Condition_evaluate(condition, emails[ei], t)
        IN  /\ t <= StartTime + MaxDrift
            /\ (t /= now) => r.clock
            /\ now' = t
            /\ warnings' = warnings \o r.warns
            /\ lastEval' = [valid |-> TRUE, cond |-> condition,
                            email |-> emails[ei], raised |-> r.raised,
                            val |-> r.val, warns |-> r.warns]
            /\ IF r.raised
               THEN pc' = "raised" /\ UNCHANGED evaluated_conditions
               ELSE /\ pc' = pc
                    /\ evaluated_conditions' =
                           Append(evaluated_conditions, r.val)
    /\ UNCHANGED <<rules_data, rules, emails, ei, ri, ai, all_succeeded,
                   calls, match_log, lastExec, lastRun, stdout, label_id_map,
                   mailbox, requests>>
    /\ UNCHANGED store_vars

\* Rule.matches returns, and process_emails branches on it: lines 285-296
\* and 404-408
Matches ==
    /\ pc = "match"
    /\ Len(evaluated_conditions) = Len(rules[ri].conditions)
    /\ LET m == Rule_matches(rules[ri], evaluated_conditions)
       IN  /\ warnings' = warnings \o m.warns
           /\ match_log' = Append(match_log,
                                   [ei |-> ei, ri |-> ri, val |-> m.val,
                                    warns |-> m.warns,
                                    results |-> evaluated_conditions])
           /\ IF m.val
              THEN /\ pc' = "exec"
                   /\ ai' = 1
                   /\ all_succeeded' = TRUE
                   /\ lastRun' = [state |-> "running", ei |-> ei, ri |-> ri,
                                  results |-> <<>>, ret |-> FALSE]
                   /\ stdout' = stdout \o
                          <<MatchesLine(rules[ri].description),
                            ExecutingLine(emails[ei].id,
                                          rules[ri].description)>>
                   /\ UNCHANGED <<ei, ri, evaluated_conditions>>
              ELSE /\ Advance(Append(stdout,
                                     NoMatchLine(rules[ri].description)))
                   /\ UNCHANGED <<ai, all_succeeded, lastRun>>
    /\ UNCHANGED <<rules_data, rules, emails, now, calls, lastEval,
                   lastExec, label_id_map, mailbox, requests>>
    /\ UNCHANGED store_vars

\* a process_emails that ends the batch when an action returns False
ExecuteAction_AbortsOnFailure ==
    /\ pc = "exec"
    /\ ai <= Len(rules[ri].actions)
    /\ \E resp \in Responses :
        LET action == rules[ri].actions[ai]
            r == Action_execute(action, emails[ei].id, resp)
        IN  /\ calls' = calls \o
                   [i \in DOMAIN r.call |->
                       [prim |-> r.call[i].prim, id |-> r.call[i].id,
                        target |-> r.call[i].target,
                        ei |-> ei, ri |-> ri, ai |-> ai]]
            /\ warnings' = warnings \o r.warns
            /\ lastExec' = [valid |-> TRUE, action |-> action, ai |-> ai,
                            email_id |-> emails[ei].id, raised |-> r.raised,
                            ret |-> r.ret, call |-> r.call,
                            warns |-> r.warns, label_id |-> r.label_id,
                            sent |-> r.sent,
                            listed |-> Listing(r.sent, resp)]
            /\ label_id_map' = r.label_id_map
            /\ mailbox' = r.mailbox
            /\ requests' = requests \o r.sent
            /\ IF r.raised
               THEN /\ pc' = "raised"
                    /\ lastRun' = [lastRun EXCEPT !.state = "raised"]
                    /\ UNCHANGED <<ai, all_succeeded, stdout>>
               ELSE /\ pc' = IF r.ret THEN pc ELSE "done"
                    /\ ai' = ai + 1
                    /\ all_succeeded' = (all_succeeded /\ r.ret)
                    /\ lastRun' = [lastRun EXCEPT
                                      !.results = Append(@, r.ret)]
                    /\ stdout' =
                           IF r.ret THEN stdout
                           ELSE Append(stdout,
                                       FailedLine(action.action_type,
                                                  emails[ei].id))
    /\ UNCHANGED <<rules_data, rules, emails, now, ei, ri,
                   evaluated_conditions, lastEval, match_log>>
    /\ UNCHANGED store_vars

\* Rule.execute_actions executes its next action: lines 311-314
ExecuteAction ==
    /\ pc = "exec"
    /\ ai <= Len(rules[ri].actions)
    /\ \E resp \in Responses :
        LET action == rules[ri].actions[ai]
            r == Action_execute(action, emails[ei].id, resp)
        IN  /\ calls' = calls \o
                   [i \in DOMAIN r.call |->
                       [prim |-> r.call[i].prim, id |-> r.call[i].id,
                        target |-> r.call[i].target,
                        ei |-> ei, ri |-> ri, ai |-> ai]]
            /\ warnings' = warnings \o r.warns
            /\ lastExec' = [valid |-> TRUE, action |-> action, ai |-> ai,
                            email_id |-> emails[ei].id, raised |-> r.raised,
                            ret |-> r.ret, call |-> r.call,
                            warns |-> r.warns, label_id |-> r.label_id,
                            sent |-> r.sent,
                            listed |-> Listing(r.sent, resp)]
            /\ label_id_map' = r.label_id_map
            /\ mailbox' = r.mailbox
            /\ requests' = requests \o r.sent
            /\ IF r.raised
               THEN /\ pc' = "raised"
                    /\ lastRun' = [lastRun EXCEPT !.state = "raised"]
                    /\ UNCHANGED <<ai, all_succeeded, stdout>>
               ELSE /\ pc' = pc
                    /\ ai' = ai + 1
                    /\ all_succeeded' = (all_succeeded /\ r.ret)
                    /\ lastRun' = [lastRun EXCEPT
                                      !.results = Append(@, r.ret)]
                    /\ stdout' =
                           IF r.ret THEN stdout
                           ELSE Append(stdout,
                                       FailedLine(action.action_type,
                                                  emails[ei].id))
    /\ UNCHANGED <<rules_data, rules, emails, now, ei, ri,
                   evaluated_conditions, lastEval, match_log>>
    /\ UNCHANGED store_vars

\* an execute_actions that empties the rule's action list before it returns
ExecuteActionsReturn_ClearsActions ==
    /\ pc = "exec"
    /\ ai > Len(rules[ri].actions)
    /\ lastRun' = [lastRun EXCEPT !.state = "returned",
                                  !.ret = all_succeeded]
    /\ Advance(stdout)
    /\ rules' = [rules EXCEPT ![ri].actions = <<>>]
    /\ UNCHANGED <<rules_data, emails, now, ai, all_succeeded, calls,
                   warnings, lastEval, match_log, lastExec, label_id_map,
                   mailbox, requests>>
    /\ UNCHANGED store_vars

\* Rule.execute_actions returns all_succeeded: line 315
ExecuteActionsReturn ==
    /\ pc = "exec"
    /\ ai > Len(rules[ri].actions)
    /\ lastRun' = [lastRun EXCEPT !.state = "returned",
                                  !.ret = all_succeeded]
    /\ Advance(stdout)
    /\ UNCHANGED <<rules_data, rules, emails, now, ai, all_succeeded, calls,
                   warnings, lastEval, match_log, lastExec, label_id_map,
                   mailbox, requests>>
    /\ UNCHANGED store_vars

Next ==
    \/ ProcessEmails
    \/ EvaluateCondition
    \/ Matches
    \/ ExecuteAction
    \/ ExecuteActionsReturn

---------------------------------------------------------------------------
(* The calls made to a DatabaseManager, one step per call. *)

\* the record of a call: what it was given, what it gave, and the rows of
\* the table and the connection before it
DbCall(op, arg, raised, ok, count, rows) ==
    [op |-> op, arg |-> arg, raised |-> raised, ok |-> ok, count |-> count,
     rows |-> rows, before |-> table, conn |-> conn]

\* the last successful insert of each id, after the emails of a list were
\* inserted in order
RECURSIVE Inserted(_, _)
Inserted(map, email_data_list) ==
    IF email_data_list = <<>> THEN map
    ELSE LET e == Head(email_data_list)
         IN  Inserted([id \in DOMAIN map \cup {e.id} |->
                          IF id = e.id THEN e ELSE map[id]],
                      Tail(email_data_list))

\* db_manager.insert_email(email_data) is called
InsertEmail ==
    /\ script = "none"
    /\ conn /= "none"
    /\ ndb < MaxDbCalls
    /\ \E email_data \in EmailDataPool :
        LET r == insert_email(email_data)
        IN  /\ table' = r.table
            /\ inserted' = IF ~r.raised /\ r.ret
                           THEN Inserted(inserted, <<email_data>>)
                           ELSE inserted
            /\ lastDb' = DbCall("insert_email", <<email_data>>, r.raised,
                                r.ret, 0, <<>>)
    /\ ndb' = ndb + 1
    /\ UNCHANGED <<conn, script, closes>>
    /\ UNCHANGED engine_vars

\* db_manager.insert_many_emails(email_data_list) is called
InsertManyEmails ==
    /\ script = "none"
    /\ conn /= "none"
    /\ ndb < MaxDbCalls
    /\ \E email_data_list \in SeqsUpTo(BulkPool, MaxEmails) :
        LET r == insert_many_emails(email_data_list)
        IN  /\ table' = r.table
            /\ inserted' = IF ~r.raised /\ r.ret > 0
                           THEN Inserted(inserted, email_data_list)
                           ELSE inserted
            /\ lastDb' = DbCall("insert_many_emails", email_data_list,
                                r.raised, FALSE, r.ret, <<>>)
    /\ ndb' = ndb + 1
    /\ UNCHANGED <<conn, script, closes>>
    /\ UNCHANGED engine_vars

\* db_manager.get_all_emails() is called
GetAllEmails ==
    /\ script = "none"
    /\ conn /= "none"
    /\ ndb < MaxDbCalls
    /\ LET r == get_all_emails
       IN  lastDb' = DbCall("get_all_emails", <<>>, r.raised, FALSE, 0,
                            r.ret)
    /\ ndb' = ndb + 1
    /\ UNCHANGED <<conn, table, inserted, script, closes>>
    /\ UNCHANGED engine_vars

\* DatabaseManager.close_connection(): self.conn is set, so conn.close()
\* is called, which a closed connection accepts
close_connection ==
    /\ conn' = "closed"
    /\ closes' = closes + 1

\* db_manager.close_connection() is called
CloseConnection ==
    /\ script = "none"
    /\ conn /= "none"
    /\ ndb < MaxDbCalls
    /\ close_connection
    /\ lastDb' = DbCall("close_connection", <<>>, FALSE, FALSE, 0, <<>>)
    /\ ndb' = ndb + 1
    /\ UNCHANGED <<table, inserted, script>>
    /\ UNCHANGED engine_vars

NextDb ==
    \/ InsertEmail
    \/ InsertManyEmails
    \/ GetAllEmails
    \/ CloseConnection

---------------------------------------------------------------------------
(* process_stored_emails, one step per object it constructs or call it     *)
(* makes; the steps of rule_engine.process_emails are those of Next.       *)

\* a line process_stored_emails prints
ScriptLine(kind) == PrintLine(kind, "", "", <<>>)

\* db_manager = DatabaseManager(): lines 13-22.  The constructor connects
\* or raises; when it raises the function returns.
NewDatabaseManager ==
    /\ script = "start"
    /\ \E ok \in BOOLEAN :
        IF ok
        THEN /\ conn' = "open"
             /\ script' = "db"
             /\ stdout' = Append(stdout, ScriptLine("script_starting"))
        ELSE /\ conn' = conn
             /\ script' = "finished"
             /\ stdout' = stdout \o <<ScriptLine("script_starting"),
                                       ScriptLine("no_database")>>
    /\ UNCHANGED <<table, inserted, lastDb, ndb, closes>>
    /\ UNCHANGED <<rules_data, rules, emails, now, pc, ei, ri,
                   evaluated_conditions, ai, all_succeeded, calls, warnings,
                   lastEval, match_log, lastExec, lastRun, label_id_map,
                   mailbox, requests>>

\* gmail_client = GmailClient(): lines 26-33.  When the constructor raises
\* the connection is closed and the function returns.
NewGmailClient ==
    /\ script = "db"
    /\ \E ok \in BOOLEAN :
        IF ok
        THEN /\ script' = "client"
             /\ UNCHANGED <<conn, closes, stdout>>
        ELSE /\ close_connection
             /\ script' = "finished"
             /\ stdout' = Append(stdout, ScriptLine("no_client"))
    /\ UNCHANGED <<table, inserted, lastDb, ndb>>
    /\ UNCHANGED <<rules_data, rules, emails, now, pc, ei, ri,
                   evaluated_conditions, ai, all_succeeded, calls, warnings,
                   lastEval, match_log, lastExec, lastRun, label_id_map,
                   mailbox, requests>>

\* db_manager.get_all_emails() and Email.from_db_row on each row: lines
\* 36-47.  An empty result closes the connection and returns; a ValueError
\* of either call leaves the function.
RetrieveEmails ==
    /\ script = "client"
    /\ LET r == get_all_emails
       IN  /\ lastDb' = DbCall("get_all_emails", <<>>, r.raised, FALSE, 0,
                               r.ret)
           /\ IF r.raised
                 \/ \E i \in DOMAIN r.ret : from_db_row_raises(r.ret[i])
              THEN /\ script' = "failed"
                   /\ stdout' = Append(stdout, ScriptLine("retrieving"))
                   /\ UNCHANGED <<conn, closes, emails>>
              ELSE IF r.ret = <<>>
              THEN /\ close_connection
                   /\ script' = "finished"
                   /\ stdout' = stdout \o <<ScriptLine("retrieving"),
                                             ScriptLine("no_emails")>>
                   /\ UNCHANGED emails
              ELSE /\ emails' = [i \in DOMAIN r.ret |->
                                    from_db_row(r.ret[i])]
                   /\ script' = "rows"
                   /\ stdout' = stdout \o <<ScriptLine("retrieving"),
                                             ScriptLine("retrieved")>>
                   /\ UNCHANGED <<conn, closes>>
    /\ UNCHANGED <<table, inserted, ndb>>
    /\ UNCHANGED <<rules_data, rules, now, pc, ei, ri,
                   evaluated_conditions, ai, all_succeeded, calls, warnings,
                   lastEval, match_log, lastExec, lastRun, label_id_map,
                   mailbox, requests>>

\* rule_engine = RuleEngine() and the test of rule_engine.rules: lines
\* 50-56.  With rules, process_emails is called; without, a line is
\* printed.
NewRuleEngine ==
    /\ script = "rows"
    /\ rules' = load_rules(rules_data)
    /\ IF rules' /= <<>>
       THEN /\ script' = "processing"
            /\ pc' = "start"
            /\ stdout' = Append(stdout, ScriptLine("initializing"))
       ELSE /\ script' = "cleanup"
            /\ pc' = pc
            /\ stdout' = stdout \o <<ScriptLine("initializing"),
                                      ScriptLine("no_rules_configured")>>
    /\ UNCHANGED <<conn, table, inserted, lastDb, ndb, closes>>
    /\ UNCHANGED <<rules_data, emails, now, ei, ri, evaluated_conditions,
                   ai, all_succeeded, calls, warnings, lastEval, match_log,
                   lastExec, lastRun, label_id_map, mailbox, requests>>

\* process_emails has returned, or was not called: lines 58-61
CleanUp ==
    /\ \/ script = "cleanup"
       \/ script = "processing" /\ pc \in {"done", "skipped"}
    /\ close_connection
    /\ script' = "finished"
    /\ stdout' = Append(stdout, ScriptLine("script_finished"))
    /\ UNCHANGED <<table, inserted, lastDb, ndb>>
    /\ UNCHANGED <<rules_data, rules, emails, now, pc, ei, ri,
                   evaluated_conditions, ai, all_succeeded, calls, warnings,
                   lastEval, match_log, lastExec, lastRun, label_id_map,
                   mailbox, requests>>

\* an exception leaves process_emails at line 54: nothing catches it, and
\* it leaves process_stored_emails
ProcessEmailsRaises ==
    /\ script = "processing"
    /\ pc = "raised"
    /\ script' = "failed"
    /\ UNCHANGED <<conn, table, inserted, lastDb, ndb, closes>>
    /\ UNCHANGED engine_vars

NextScript ==
    \/ NewDatabaseManager
    \/ NewGmailClient
    \/ RetrieveEmails
    \/ NewRuleEngine
    \/ Next
    \/ CleanUp
    \/ ProcessEmailsRaises

SpecScript == InitScript /\ [][NextScript]_vars

SpecDb == InitDb /\ [][NextDb]_vars

Spec == Init /\ [][Next]_vars

SpecRead == InitRead /\ [][Next]_vars

SpecLabel == InitLabel /\ [][Next]_vars

SpecClock == InitClock /\ [][Next]_vars

SpecTwin == InitTwin /\ [][Next]_vars

SpecTarget == InitTarget /\ [][Next]_vars

SpecCond == InitCond /\ [][Next]_vars

SpecRule == InitRule /\ [][Next]_vars

SpecAction == InitAction /\ [][Next]_vars

SpecLoad == InitLoad /\ [][Next]_vars

SpecBatch == InitBatch /\ [][Next]_vars

---------------------------------------------------------------------------
(* What the properties speak of. *)

\* process_emails has ended, by returning or by an exception leaving it
Ended == pc \in {"skipped", "done", "raised"}

\* the primitive an action is to call: none for an unknown type and for a
\* Move Message or Apply Label that has no usable target
Primitive(action) ==
    CASE action.action_type = "Mark as Read" -> "mark_as_read"
      [] action.action_type = "Mark as Unread" -> "mark_as_unread"
      [] action.action_type = "Move Message" /\ Truthy(action.value) ->
             "move_message"
      [] action.action_type = "Apply Label" /\ Truthy(action.value) ->
             "apply_label"
      [] OTHER -> "none"

Primitives == {"mark_as_read", "mark_as_unread", "move_message",
               "apply_label"}

\* the record at position e matches the rule at position r whatever the
\* clock: no condition reads the clock or raises, and the combination holds
SurelyMatches(e, r) ==
    LET rs == [i \in DOMAIN rules[r].conditions |->
                  Condition_evaluate(rules[r].conditions[i], emails[e],
                                     StartTime)]
    IN  /\ \A i \in DOMAIN rs : ~rs[i].raised /\ ~rs[i].clock
        /\ Rule_matches(rules[r], [i \in DOMAIN rs |-> rs[i].val]).val

\* matches returned true for (e, r), or was never called and would have
Matched(e, r) ==
    IF \E k \in DOMAIN match_log : match_log[k].ei = e /\ match_log[k].ri = r
    THEN \E k \in DOMAIN match_log :
             match_log[k].ei = e /\ match_log[k].ri = r /\ match_log[k].val
    ELSE SurelyMatches(e, r)

CallBefore(c, d) ==
    \/ c.ei < d.ei
    \/ c.ei = d.ei /\ c.ri < d.ri
    \/ c.ei = d.ei /\ c.ri = d.ri /\ c.ai < d.ai

CallsAt(e, r, a) ==
    {i \in DOMAIN calls : calls[i].ei = e /\ calls[i].ri = r
                          /\ calls[i].ai = a}

\* the (record, rule, action) positions of the batch
Triples ==
    UNION { UNION { { <<e, r, a>> : a \in DOMAIN rules[r].actions } :
                    r \in DOMAIN rules } : e \in DOMAIN emails }

UnknownCombinator(rule) ==
    rule.overall_predicate \notin {<<"a", "l", "l">>, <<"a", "n", "y">>}

---------------------------------------------------------------------------
(* Properties *)

\* the calls are in the order of (record, rule, action) positions
CallsOrdered ==
    \A i, j \in DOMAIN calls : i < j => CallBefore(calls[i], calls[j])

\* every action, with a primitive to call, of every rule that matches a
\* record was executed on that record
EveryMatchingRuleExecuted ==
    \A e \in DOMAIN emails, r \in DOMAIN rules :
        Matched(e, r) =>
            \A a \in DOMAIN rules[r].actions :
                Primitive(rules[r].actions[a]) /= "none"
                    => CallsAt(e, r, a) /= {}

\* each primitive was called once per matching (record, rule, action) of
\* its type; no call for a pair that did not match; every call carries the
\* id of its record
CallCountsAgree ==
    /\ \A p \in Primitives :
           Cardinality({i \in DOMAIN calls : calls[i].prim = p})
             = Cardinality({t \in Triples :
                              /\ Matched(t[1], t[2])
                              /\ Primitive(rules[t[2]].actions[t[3]]) = p})
    /\ \A k \in DOMAIN match_log :
           ~match_log[k].val =>
               \A i \in DOMAIN calls :
                   ~(calls[i].ei = match_log[k].ei
                     /\ calls[i].ri = match_log[k].ri)
    /\ \A i \in DOMAIN calls : calls[i].id = emails[calls[i].ei].id

\* C1: when process_emails has ended, the calls it made to the mail
\* service are ordered by (record position, rule position, action
\* position), and every rule that matches a record has had each of its
\* actions executed, whether or not an earlier rule matched that record.
C1_EveryMatchingRuleExecuted ==
    (Ended /\ rules /= <<>>) => (CallsOrdered /\ EveryMatchingRuleExecuted)

\* what holds of C1 and C3 on the runs of process_emails that return
ReturnedRunsCallEveryMatch ==
    pc = "done" =>
        (CallsOrdered /\ EveryMatchingRuleExecuted /\ CallCountsAgree)

\* what holds of C2 on the runs of execute_actions that return
ReturnedExecutionsAttemptAll ==
    lastRun.state = "returned" =>
        /\ Len(lastRun.results) = Len(rules[lastRun.ri].actions)
        /\ lastRun.ret = PyAll(lastRun.results)

\* C2: when Rule.execute_actions has ended, every action of the rule was
\* attempted, and it returned the conjunction of the actions' results.
C2_EveryActionAttempted ==
    lastRun.state \in {"returned", "raised"} =>
        /\ lastRun.state = "returned"
        /\ Len(lastRun.results) = Len(rules[lastRun.ri].actions)
        /\ lastRun.ret = PyAll(lastRun.results)

\* C3: when process_emails has ended, each primitive was called once for
\* each (record, rule, action) where the rule matches the record and the
\* action is of the primitive's type with a usable target; a rule that does
\* not match causes no call; every call carries the id of its record.
C3_CallCounts ==
    (Ended /\ rules /= <<>>) => CallCountsAgree

\* C4: no exception leaves process_emails: every condition evaluation and
\* every action execution ends in a boolean result.
C4_NoErrorPropagates ==
    /\ pc /= "raised"
    /\ ~lastEval.raised
    /\ ~lastExec.raised

\* C5: a condition on an unrecognized field evaluates false, with a warning
\* naming the field, whatever the predicate, the value and the record.
C5_UnknownFieldIsFalse ==
    (lastEval.valid /\ lastEval.cond.field \notin Fields) =>
        /\ ~lastEval.raised
        /\ ~lastEval.val
        /\ \E i \in DOMAIN lastEval.warns :
               lastEval.warns[i] = FieldWarning(lastEval.cond.field)

\* C6 as stated: Rule.matches returns false, with a warning, for every
\* record whenever the rule's combinator is neither all nor any.
C6_UnknownCombinatorIsFalse ==
    \A k \in DOMAIN match_log :
        UnknownCombinator(rules[match_log[k].ri]) =>
            /\ ~match_log[k].val
            /\ match_log[k].warns = <<CombinatorWarning>>

\* C6 amended: for a rule that has at least one condition and whose
\* combinator is neither all nor any, Rule.matches never returns true:
\* each time it returns, it returns false and has logged one warning.
C6_UnknownCombinatorWithConditions ==
    \A k \in DOMAIN match_log :
        (UnknownCombinator(rules[match_log[k].ri])
         /\ rules[match_log[k].ri].conditions /= <<>>) =>
            /\ ~match_log[k].val
            /\ match_log[k].warns = <<CombinatorWarning>>

C6_Witness ==
    \E k \in DOMAIN match_log :
        /\ UnknownCombinator(rules[match_log[k].ri])
        /\ rules[match_log[k].ri].conditions /= <<>>
        /\ evaluated_conditions = <<>>
        /\ lastEval.valid /\ lastEval.val
        /\ ~match_log[k].val
        /\ pc = "done"

\* C7: each evaluation or execution that meets an unknown predicate, field,
\* action type or combinator logs exactly one warning, gives a false or
\* failed result and raises nothing.
C7_ExactlyOneWarning ==
    /\ (lastEval.valid
        /\ (lastEval.cond.field \notin Fields
            \/ lastEval.cond.predicate \notin Predicates)) =>
           /\ ~lastEval.raised
           /\ ~lastEval.val
           /\ Len(lastEval.warns) = 1
    /\ (lastExec.valid /\ lastExec.action.action_type \notin ActionTypes) =>
           /\ ~lastExec.raised
           /\ ~lastExec.ret
           /\ Len(lastExec.warns) = 1
    /\ \A k \in DOMAIN match_log :
           UnknownCombinator(rules[match_log[k].ri]) =>
               /\ ~match_log[k].val
               /\ Len(match_log[k].warns) = 1

\* execute_actions is about to execute a Move Message or Apply Label action
\* that the rule document gave no value
AbsentTarget ==
    /\ pc = "exec"
    /\ ai <= Len(rules[ri].actions)
    /\ rules[ri].actions[ai].action_type \in {"Move Message", "Apply Label"}
    /\ rules_data.doc[ri].actions[ai].value = Missing

\* C8: executing a Move Message or Apply Label action whose target is
\* absent returns false and calls no primitive of the mail service, for
\* every record id; the rule document was loaded with the action in it.
C8_AbsentTargetFails ==
    [][AbsentTarget =>
          /\ calls' = calls
          /\ lastExec'.valid
          /\ lastExec'.action = rules[ri].actions[ai]
          /\ lastExec'.email_id = emails[ei].id
          /\ ~lastExec'.ret
          /\ ~lastExec'.raised
          /\ ~all_succeeded'
          /\ pc' = "exec"]_vars

C8_Witness ==
    /\ lastExec.valid
    /\ lastExec.action.action_type = "Move Message"
    /\ lastExec.action.value = None
    /\ rules_data.doc[1].actions[lastExec.ai].value = Missing
    /\ rules /= <<>>
    /\ ~lastExec.ret
    /\ calls = <<>>

\* execute_actions is about to execute an action of an unrecognized type
UnknownType ==
    /\ pc = "exec"
    /\ ai <= Len(rules[ri].actions)
    /\ rules[ri].actions[ai].action_type \notin ActionTypes

\* C9: executing an action whose type is not one of the four recognized
\* types returns false and calls none of the mail-service primitives.
C9_UnknownTypeFails ==
    [][UnknownType =>
          /\ calls' = calls
          /\ lastExec'.valid
          /\ lastExec'.action = rules[ri].actions[ai]
          /\ ~lastExec'.ret
          /\ ~lastExec'.raised
          /\ ~all_succeeded'
          /\ pc' = "exec"]_vars

C9_Witness ==
    /\ lastExec.valid
    /\ lastExec.action.action_type = "Archive"
    /\ lastExec.action.value = Str(<<"b">>)
    /\ ~lastExec.ret
    /\ calls = <<>>

\* C10: a rule with an empty condition sequence matches every record.
C10_EmptyConditionsMatch ==
    \A k \in DOMAIN match_log :
        rules[match_log[k].ri].conditions = <<>> => match_log[k].val

C10_Witness ==
    \E k \in DOMAIN match_log :
        /\ rules[match_log[k].ri].conditions = <<>>
        /\ UnknownCombinator(rules[match_log[k].ri])
        /\ match_log[k].val
        /\ pc = "exec"

\* C11: each time Rule.matches returns for a rule that has at least one
\* condition, every condition was evaluated, in order, and the value
\* returned is the conjunction of the conditions' results when the
\* combinator is all and their disjunction when it is any.
C11_AllIsAndAnyIsOr ==
    \A k \in DOMAIN match_log :
        LET rule == rules[match_log[k].ri]
            email_obj == emails[match_log[k].ei]
            rs == match_log[k].results
        IN  rule.conditions /= <<>> =>
              /\ Len(rs) = Len(rule.conditions)
              /\ \A i \in DOMAIN rs :
                     LET r == Condition_evaluate(rule.conditions[i],
                                                 email_obj, StartTime)
                     IN  ~r.clock => (~r.raised /\ rs[i] = r.val)
              /\ rule.overall_predicate = <<"a", "l", "l">> =>
                     (match_log[k].val <=> \A i \in DOMAIN rs : rs[i])
              /\ rule.overall_predicate = <<"a", "n", "y">> =>
                     (match_log[k].val <=> \E i \in DOMAIN rs : rs[i])

C11_Witness ==
    \E k \in DOMAIN match_log :
        /\ rules[match_log[k].ri].overall_predicate = <<"a", "n", "y">>
        /\ match_log[k].results = <<FALSE, TRUE>>
        /\ match_log[k].val
        /\ pc = "done"

\* the attribute of the record that the last evaluated condition's field
\* resolved to
ResolvedValue ==
    get_email_field_value(lastEval.email, lastEval.cond.field).val

\* C12: when the record attribute a condition's field resolves to is
\* absent and the predicate is neither equals nor does not equal,
\* Condition.evaluate returns false, whatever the condition's value.
C12_AbsentValueIsFalse ==
    (/\ lastEval.valid
     /\ ResolvedValue = None
     /\ lastEval.cond.predicate \notin {"equals", "does not equal"}) =>
        (~lastEval.raised /\ ~lastEval.val)

C12_Witness ==
    /\ lastEval.valid
    /\ lastEval.cond = [field |-> "From", predicate |-> "contains",
                        value |-> Str(<<>>)]
    /\ lastEval.email.from_address = None
    /\ lastEval.email.message_body = None
    /\ ~lastEval.raised
    /\ ~lastEval.val

\* two characters that are the same letter, in either case
SameLetter(c, d) ==
    \/ c = d
    \/ {c, d} \in {{"a", "A"}, {"b", "B"}, {"l", "L"}, {"n", "N"},
                   {"y", "Y"}}

\* two strings that differ at most in the case of their letters
DifferOnlyInCase(x, y) ==
    /\ Len(x) = Len(y)
    /\ \A i \in DOMAIN x : SameLetter(x[i], y[i])

\* the comparison of equals: of the field value with the condition value
SameValue(email_value, value) ==
    IF IsStr(email_value) /\ IsStr(value)
    THEN DifferOnlyInCase(email_value.s, value.s)
    ELSE email_value = value

\* C13: equals returns whether the field value and the condition value
\* differ at most in case when both are strings, and whether they are the
\* same value otherwise (absent equals absent); does not equal returns the
\* negation; neither raises.
C13_EqualsIgnoresCase ==
    lastEval.valid =>
        /\ lastEval.cond.predicate = "equals" =>
               /\ ~lastEval.raised
               /\ lastEval.val = SameValue(ResolvedValue, lastEval.cond.value)
        /\ lastEval.cond.predicate = "does not equal" =>
               /\ ~lastEval.raised
               /\ lastEval.val = ~SameValue(ResolvedValue, lastEval.cond.value)

C13_Witness ==
    /\ lastEval.valid
    /\ lastEval.cond = [field |-> "From", predicate |-> "equals",
                        value |-> Str(<<"a", "b">>)]
    /\ lastEval.email.from_address = Str(<<"A", "b">>)
    /\ lastEval.val
    /\ pc = "match"

\* x, whatever the case of its letters, is a substring of y
SubstringIgnoringCase(x, y) ==
    \E i \in 0..Len(y), j \in 0..Len(y) :
        /\ i <= j
        /\ j - i = Len(x)
        /\ DifferOnlyInCase(SubSeq(y, i + 1, j), x)

\* C14: on a field whose value is a string, contains returns true exactly
\* when the condition value is a string that, whatever the case, is a
\* substring of the field value, and it returns (true or false) for every
\* string value; on a field whose value is not a string, contains and does
\* not contain both return false.
C14_ContainsIsSubstring ==
    lastEval.valid =>
        /\ (lastEval.cond.predicate = "contains" /\ IsStr(ResolvedValue)) =>
               /\ (~lastEval.raised /\ lastEval.val)
                     <=> /\ IsStr(lastEval.cond.value)
                         /\ SubstringIgnoringCase(lastEval.cond.value.s,
                                                  ResolvedValue.s)
               /\ IsStr(lastEval.cond.value) => ~lastEval.raised
        /\ (/\ lastEval.cond.predicate \in {"contains", "does not contain"}
            /\ ~IsStr(ResolvedValue)) =>
               (~lastEval.raised /\ ~lastEval.val)

C14_Witness ==
    /\ lastEval.valid
    /\ lastEval.cond = [field |-> "Subject", predicate |-> "contains",
                        value |-> Str(<<"A">>)]
    /\ lastEval.email.subject = Str(<<"b", "a">>)
    /\ lastEval.val
    /\ pc = "match"

\* the last evaluation was of a date predicate on Received Date/Time, with
\* a duration in days, against a record that has a received timestamp
DaysEvaluated ==
    /\ lastEval.valid
    /\ lastEval.cond.field = "Received Date/Time"
    /\ lastEval.cond.predicate \in {"less than", "greater than"}
    /\ lastEval.cond.value.k = "days"
    /\ IsDateTime(lastEval.email.received_date_time)

\* less than d returned whether receivedAt > now - d, and greater than d
\* whether receivedAt < now - d, with now the clock as the evaluation read it
ComparedWithThreshold ==
    LET receivedAt == lastEval.email.received_date_time.n
        threshold == now - lastEval.cond.value.n * 100
    IN  /\ lastEval.cond.predicate = "less than" =>
               lastEval.val = (receivedAt > threshold)
        /\ lastEval.cond.predicate = "greater than" =>
               lastEval.val = (receivedAt < threshold)

\* C15: on Received Date/Time with a duration d in days, less than d is
\* true exactly when receivedAt > now - d and greater than d exactly when
\* receivedAt < now - d, now being read at the evaluation; a message
\* received exactly at the threshold satisfies neither.
C15_DaysThreshold ==
    DaysEvaluated => (~lastEval.raised /\ ComparedWithThreshold)

\* what holds of C15 on the evaluations that return
ReturnedDaysEvaluationsCompare ==
    (DaysEvaluated /\ ~lastEval.raised) => ComparedWithThreshold

\* C16: less than and greater than return false, whatever the record and
\* the condition value, when the condition's field is not Received
\* Date/Time, and when the record has no received timestamp.
C16_DatePredicatesElsewhereFalse ==
    (/\ lastEval.valid
     /\ lastEval.cond.predicate \in {"less than", "greater than"}
     /\ \/ lastEval.cond.field /= "Received Date/Time"
        \/ lastEval.email.received_date_time = None) =>
        (~lastEval.raised /\ ~lastEval.val)

C16_Witness ==
    /\ lastEval.valid
    /\ lastEval.cond = [field |-> "Subject", predicate |-> "greater than",
                        value |-> Days(1)]
    /\ IsStr(lastEval.email.subject)
    /\ IsDateTime(lastEval.email.received_date_time)
    /\ ~lastEval.val
    /\ pc = "match"

\* a condition of the entry has no field, predicate or value, or an action
\* of it has no type
LacksRequiredKey(rule_data) ==
    \/ \E i \in DOMAIN rule_data.conditions :
           \/ rule_data.conditions[i].field = NoKey
           \/ rule_data.conditions[i].predicate = NoKey
           \/ rule_data.conditions[i].value = Missing
    \/ \E i \in DOMAIN rule_data.actions :
           rule_data.actions[i].type = NoKey

\* C17: the rule list of a constructed RuleEngine is empty when the rule
\* file is missing, is not valid JSON, or has an entry that lacks a
\* required key, even if other entries are valid; the list is never a
\* part of the document.
C17_LoadFailsEntirely ==
    /\ (\/ ~rules_data.exists
        \/ ~rules_data.json_ok
        \/ \E i \in DOMAIN rules_data.doc :
               LacksRequiredKey(rules_data.doc[i])) => rules = <<>>
    /\ rules = <<>> \/ Len(rules) = Len(rules_data.doc)

C17_Witness ==
    /\ Len(rules_data.doc) = 2
    /\ ~LacksRequiredKey(rules_data.doc[1])
    /\ rules_data.doc[1].overall_predicate /= None
    /\ LacksRequiredKey(rules_data.doc[2])
    /\ rules = <<>>
    /\ pc = "skipped"

\* the document was read and each entry of it made a Rule
LoadsSuccessfully ==
    /\ rules_data.exists
    /\ rules_data.json_ok
    /\ \A i \in DOMAIN rules_data.doc :
           /\ ~LacksRequiredKey(rules_data.doc[i])
           /\ rules_data.doc[i].overall_predicate.k \in {"str", "missing"}

\* C18: when the rule document loads successfully, the engine holds one
\* Rule per entry, in document order, each with the entry's conditions and
\* actions in declared order, the description "Untitled Rule" if the entry
\* has none and the combinator all if the entry has none.
C18_LoadKeepsOrder ==
    LoadsSuccessfully =>
        /\ Len(rules) = Len(rules_data.doc)
        /\ \A i \in DOMAIN rules_data.doc :
               LET d == rules_data.doc[i]
                   r == rules[i]
               IN  /\ r.description = IF d.description = NoKey
                                      THEN "Untitled Rule"
                                      ELSE d.description
                   /\ IF d.overall_predicate = Missing
                      THEN r.overall_predicate = <<"a", "l", "l">>
                      ELSE DifferOnlyInCase(r.overall_predicate,
                                            d.overall_predicate.s)
                   /\ Len(r.conditions) = Len(d.conditions)
                   /\ \A j \in DOMAIN d.conditions :
                          /\ r.conditions[j].field = d.conditions[j].field
                          /\ r.conditions[j].predicate
                                = d.conditions[j].predicate
                          /\ r.conditions[j].value = d.conditions[j].value
                   /\ Len(r.actions) = Len(d.actions)
                   /\ \A j \in DOMAIN d.actions :
                          /\ r.actions[j].action_type = d.actions[j].type
                          /\ r.actions[j].value
                                = IF d.actions[j].value = Missing THEN None
                                  ELSE d.actions[j].value

C18_Witness ==
    /\ LoadsSuccessfully
    /\ Len(rules) = 2
    /\ rules_data.doc[1].description = NoKey
    /\ rules_data.doc[1].overall_predicate = Missing
    /\ rules[1].description = "Untitled Rule"
    /\ Len(rules[2].conditions) = 2
    /\ Len(rules[2].actions) = 2
    /\ pc = "done"

\* C19: an engine that holds no rules makes no call to the mail service,
\* whatever the batch: process_emails prints that no rules are loaded and
\* returns; with rules and an empty batch it prints other lines, and never
\* that one.
C19_NoRulesNoCalls ==
    /\ rules = <<>> =>
           /\ calls = <<>>
           /\ pc \in {"start", "skipped"}
           /\ pc = "skipped" => stdout = <<NoRulesLine>>
    /\ (Ended /\ rules /= <<>> /\ emails = <<>>) =>
           /\ stdout /= <<>>
           /\ \A i \in DOMAIN stdout : stdout[i] /= NoRulesLine

C19_Witness ==
    /\ pc = "skipped"
    /\ rules_data.exists /\ rules_data.json_ok
    /\ Len(emails) = MaxEmails
    /\ stdout = <<NoRulesLine>>
    /\ calls = <<>>

\* C20: no step of process_emails changes a record of the batch or the
\* engine's rule list, whatever the rules match and whatever the mail
\* service returns.
C20_BatchAndRulesUnchanged ==
    [][emails' = emails /\ rules' = rules]_vars

C20_Witness ==
    /\ pc = "done"
    /\ Len(emails) = MaxEmails
    /\ rules = load_rules(rules_data)
    /\ \E i, j \in DOMAIN calls : calls[i].ei /= calls[j].ei
    /\ \E k \in DOMAIN match_log : ~match_log[k].val
    /\ \E i \in DOMAIN stdout : stdout[i].kind = "failed"

---------------------------------------------------------------------------
(* The read state of a message *)

\* the primitives that set the read state of a message
ReadStatePrims == {"mark_as_read", "mark_as_unread"}

\* the positions in calls of the read-state calls made for message id
ReadStateCalls(id) ==
    {i \in DOMAIN calls :
        calls[i].id = id /\ calls[i].prim \in ReadStatePrims}

\* a read-state action for message id returned False
ReadStateFailed(id) ==
    \E i \in DOMAIN stdout :
        stdout[i] \in {FailedLine("Mark as Read", id),
                       FailedLine("Mark as Unread", id)}

\* call c comes before call d in (record, rule, action) order
Before(c, d) ==
    \/ c.ei < d.ei
    \/ c.ei = d.ei /\ c.ri < d.ri
    \/ c.ei = d.ei /\ c.ri = d.ri /\ c.ai < d.ai

\* C21: when the read-state actions of the matching rules are executed for
\* a message and every one of them succeeds, they are applied in (record,
\* rule, action) order, and the message is unread at the mail service
\* exactly when the last of them is Mark as Unread.
C21_LastReadStateActionWins ==
    \A id \in MessageIds :
        LET cs == ReadStateCalls(id)
            last == CHOOSE i \in cs : \A j \in cs : j <= i
        IN  (cs /= {} /\ ~ReadStateFailed(id)) =>
                /\ \A i, j \in cs : i < j => Before(calls[i], calls[j])
                /\ ("UNREAD" \in mailbox[id])
                       <=> (calls[last].prim = "mark_as_unread")

\* a run has ended in which two rules set the read state of a message in
\* opposite ways, every call succeeded, and the message, unread before the
\* run and marked as unread by the first of the rules, is read
C21_Witness ==
    /\ pc = "done"
    /\ \E id \in MessageIds :
        /\ ~ReadStateFailed(id)
        /\ "UNREAD" \notin mailbox[id]
        /\ \E i, j \in ReadStateCalls(id) :
               /\ i < j
               /\ calls[i].ri < calls[j].ri
               /\ calls[i].prim = "mark_as_unread"
               /\ calls[j].prim = "mark_as_read"
               /\ \A k \in ReadStateCalls(id) : k <= j

---------------------------------------------------------------------------
(* The emails table *)

\* the row carries the fields of the dictionary: the text fields as they
\* are, the labels and a datetime as the text that reads back as them
Carries(row, email_data) ==
    /\ row.id = email_data.id
    /\ row.thread_id = email_data.threadId
    /\ row.from = email_data.From
    /\ row.subject = email_data.Subject
    /\ row.message_body = email_data.MessageBody
    /\ json_loads(row.label_ids.s) =
           [ok |-> TRUE, labels |-> email_data.labelIds]
    /\ CASE IsDateTime(email_data.ReceivedDateTime) ->
                /\ IsStr(row.received_date_time)
                /\ fromisoformat(row.received_date_time.s) =
                       [ok |-> TRUE, val |-> email_data.ReceivedDateTime]
         [] IsStr(email_data.ReceivedDateTime) ->
                row.received_date_time = email_data.ReceivedDateTime
         [] OTHER -> row.received_date_time = None

\* C22: after any sequence of insert_email and insert_many_emails calls the
\* emails table holds at most one row per id, a row for every id that was
\* inserted successfully and for no other, and the row of an id carries
\* the fields of the most recent successful insert of that id.
C22_LastWriteWins ==
    /\ \A i, j \in DOMAIN table : table[i].id = table[j].id => i = j
    /\ \A i \in DOMAIN table :
           /\ table[i].id \in DOMAIN inserted
           /\ Carries(table[i], inserted[table[i].id])
    /\ \A id \in DOMAIN inserted : \E i \in DOMAIN table : table[i].id = id

\* a bulk insert has replaced the row an earlier insert wrote for the same
\* id with another sender, and the table holds the new sender
C22_Witness ==
    /\ lastDb.op = "insert_many_emails"
    /\ lastDb.count > 0
    /\ \E i \in DOMAIN lastDb.before, j \in DOMAIN table :
           /\ lastDb.before[i].id = lastDb.arg[Len(lastDb.arg)].id
           /\ lastDb.before[i].from /= lastDb.arg[Len(lastDb.arg)].From
           /\ table[j].id = lastDb.before[i].id
           /\ table[j].from = lastDb.arg[Len(lastDb.arg)].From

\* sqlite3 refuses the dictionary: one of its text fields is neither a
\* string, nor a datetime, nor None
Refused(email_data) ==
    \E v \in {email_data.From, email_data.Subject,
               email_data.ReceivedDateTime, email_data.MessageBody} :
        ~(IsStr(v) \/ IsDateTime(v) \/ v = None)

\* the database operation of the last call fails: the connection was
\* closed, or sqlite3 refuses an entry of the list
BulkInsertFails ==
    \/ lastDb.conn = "closed"
    \/ \E i \in DOMAIN lastDb.arg : Refused(lastDb.arg[i])

\* what a bulk insert that returned has returned and written: 0 and
\* nothing for an empty list or a failed operation, else the length of
\* the list and every entry of the list
BulkInsertResult ==
    IF lastDb.arg = <<>> \/ BulkInsertFails
    THEN lastDb.count = 0 /\ table = lastDb.before
    ELSE /\ lastDb.count = Len(lastDb.arg)
         /\ \A i \in DOMAIN lastDb.arg :
                \E j \in DOMAIN table : table[j].id = lastDb.arg[i].id

\* C23: insert_many_emails returns 0 and leaves the stored rows unchanged
\* when given an empty list or when the database operation fails; on
\* success it returns the length of the list, every entry being stored.
C23_BulkInsertAllOrNothing ==
    (lastDb.op = "insert_many_emails") =>
        (~lastDb.raised /\ BulkInsertResult)

\* every insert_many_emails call that returns has the result C23 states,
\* and one that an exception leaves has written nothing
ReturnedBulkInsertsAllOrNothing ==
    (lastDb.op = "insert_many_emails") =>
        IF lastDb.raised THEN table = lastDb.before ELSE BulkInsertResult

\* the rows read hold one that has the fields of the dictionary, and
\* Email.from_db_row makes of it an Email that has them too
ReadsBack(email_data, rows) ==
    \E i \in DOMAIN rows :
        LET row == rows[i]
            email == from_db_row(row)
        IN  /\ row.id = email_data.id
            /\ row.from = email_data.From
            /\ row.subject = email_data.Subject
            /\ row.message_body = email_data.MessageBody
            /\ row.received_date_time = email_data.ReceivedDateTime
            /\ row.label_ids = email_data.labelIds
            /\ ~from_db_row_raises(row)
            /\ email.id = email_data.id
            /\ email.from_address = email_data.From
            /\ email.subject = email_data.Subject
            /\ email.message_body = email_data.MessageBody
            /\ email.received_date_time = email_data.ReceivedDateTime
            /\ email.label_ids = email_data.labelIds

\* C24: an email whose timestamp is a datetime or absent and whose labels
\* are a list of strings, once stored, is read back by get_all_emails as a
\* row with the same id, sender, subject, body, timestamp and labels, of
\* which Email.from_db_row makes an Email with the same field values.
C24_StoreAndReadBack ==
    (lastDb.op = "get_all_emails" /\ lastDb.conn = "open") =>
        /\ ~lastDb.raised
        /\ \A id \in DOMAIN inserted :
               (\/ IsDateTime(inserted[id].ReceivedDateTime)
                \/ inserted[id].ReceivedDateTime = None)
                   => ReadsBack(inserted[id], lastDb.rows)

\* get_all_emails has read back an email stored by insert_email with an
\* aware datetime and two labels
C24_Witness ==
    /\ lastDb.op = "get_all_emails"
    /\ \E i \in DOMAIN lastDb.rows :
           /\ lastDb.rows[i].received_date_time.k = "datetime"
           /\ Len(lastDb.rows[i].label_ids) = 2
           /\ inserted[lastDb.rows[i].id] \in EmailDataPool
           /\ inserted[lastDb.rows[i].id].ReceivedDateTime =
                  lastDb.rows[i].received_date_time

---------------------------------------------------------------------------
(* The labels *)

\* the primitives that take the name of a label
LabelPrims == {"move_message", "apply_label"}

\* the last Action.execute called a primitive that takes a label name, and
\* the primitive returned
LookedUp ==
    /\ lastExec.valid
    /\ ~lastExec.raised
    /\ lastExec.call /= <<>>
    /\ lastExec.call[1].prim \in LabelPrims

\* a label-list request is among the requests
ListSent(sent) == \E i \in DOMAIN sent : sent[i].api = "labels.list"

\* a message-modify request is among the requests
ModifySent(sent) == \E i \in DOMAIN sent : sent[i].api = "messages.modify"

\* the labels listed hold one of that name, whatever the case, with that id
ListedAs(name, id, listed) ==
    /\ IsStr(name)
    /\ \E i \in DOMAIN listed :
           upper(listed[i].name) = upper(name.s) /\ listed[i].id = id

\* the labels listed hold one of that name, whatever the case
NameListed(name, listed) ==
    \E i \in DOMAIN listed : ListedAs(name, listed[i].id, listed)

\* the name given to the last primitive resolves to no label id: it was
\* not cached, and the label list could not be got or has no such name
ResolvesToNoId ==
    /\ LookedUp
    /\ ListSent(lastExec.sent)
    /\ ~NameListed(lastExec.call[1].target, lastExec.listed)

\* C25: move_message and apply_label return False and send no
\* message-modify request when the name they are given resolves to no
\* label id.
C25_NoLabelNoModify ==
    ResolvesToNoId => (~lastExec.ret /\ ~ModifySent(lastExec.sent))

\* move_message was given a name that the labels of the account, which
\* were listed, do not hold
C25_Witness ==
    /\ ResolvesToNoId
    /\ lastExec.call[1].prim = "move_message"
    /\ lastExec.listed /= <<>>

\* C29: a name enters label_id_map only in a lookup of that name whose
\* label-list request found a label of that name, whatever the case, and
\* with that label's id; a cached name keeps its id; a lookup of a cached
\* name gives the cached id and sends no label-list request; a lookup of a
\* name that is not cached sends one, and leaves the name out of the cache
\* when the list holds no label of that name.
C29_LabelCache ==
    [][/\ \A n \in DOMAIN label_id_map :
              n \in DOMAIN label_id_map'
                  /\ label_id_map'[n] = label_id_map[n]
       /\ \A n \in (DOMAIN label_id_map') \ (DOMAIN label_id_map) :
              /\ LookedUp'
              /\ lastExec'.call[1].target = n
              /\ ListSent(lastExec'.sent)
              /\ ListedAs(n, label_id_map'[n], lastExec'.listed)
       /\ (Len(calls') > Len(calls) /\ LookedUp') =>
              LET n == lastExec'.call[1].target
              IN  IF n \in DOMAIN label_id_map
                  THEN /\ lastExec'.label_id = label_id_map[n]
                       /\ ~ListSent(lastExec'.sent)
                  ELSE /\ ListSent(lastExec'.sent)
                       /\ ~NameListed(n, lastExec'.listed) =>
                              /\ n \notin DOMAIN label_id_map'
                              /\ lastExec'.label_id = NoId]_vars

\* a primitive was given a name that an earlier lookup had cached: it got
\* the id without a label-list request, and its modify request succeeded
C29_Witness ==
    /\ LookedUp
    /\ lastExec.call[1].target \in DOMAIN label_id_map
    /\ ~ListSent(lastExec.sent)
    /\ lastExec.label_id = label_id_map[lastExec.call[1].target]
    /\ lastExec.ret

---------------------------------------------------------------------------
(* The calls made to the mail service *)

\* the call Action.execute makes for an action and a record id, if any
CallMade(action, id) ==
    CASE action.action_type = "Mark as Read" ->
             <<Call("mark_as_read", id, None)>>
      [] action.action_type = "Mark as Unread" ->
             <<Call("mark_as_unread", id, None)>>
      [] action.action_type = "Move Message" /\ Truthy(action.value) ->
             <<Call("move_message", id, action.value)>>
      [] action.action_type = "Apply Label" /\ Truthy(action.value) ->
             <<Call("apply_label", id, action.value)>>
      [] OTHER -> <<>>

\* the call made for the action raises whatever the mail service answers:
\* its target cannot be a key of the label cache
TargetRaises(action) ==
    /\ action.action_type \in {"Move Message", "Apply Label"}
    /\ Truthy(action.value)
    /\ ~Hashable(action.value)

\* where process_emails goes on after the rule at (ei, ri)
PositionAfterRule ==
    IF ri < Len(rules) THEN <<"match", ei, ri + 1>>
    ELSE IF ei < Len(emails) THEN <<"match", ei + 1, 1>>
    ELSE <<"done", ei, ri>>

\* C26: the calls process_emails makes to the mail service depend on the
\* rules, the records and the clock only.  At every step of the execution
\* of a rule's actions, the call made and the position process_emails
\* goes on from are given by the action, the record and the position,
\* whatever the mail service answers and has answered: so two runs over
\* the same rules and records that match alike make the same calls in the
\* same order.
C26_CallsIgnoreResults ==
    [][/\ (pc = "exec" /\ ai <= Len(rules[ri].actions)) =>
              LET action == rules[ri].actions[ai]
                  made == CallMade(action, emails[ei].id)
              IN  /\ Len(calls') = Len(calls) + Len(made)
                  /\ SubSeq(calls', 1, Len(calls)) = calls
                  /\ \A i \in DOMAIN made :
                         /\ calls'[Len(calls) + i].prim = made[i].prim
                         /\ calls'[Len(calls) + i].id = made[i].id
                         /\ calls'[Len(calls) + i].target = made[i].target
                  /\ <<pc', ei', ri', ai'>> =
                         IF TargetRaises(action)
                         THEN <<"raised", ei, ri, ai>>
                         ELSE <<"exec", ei, ri, ai + 1>>
       /\ (pc = "exec" /\ ai > Len(rules[ri].actions)) =>
              /\ calls' = calls
              /\ <<pc', ei', ri'>> = PositionAfterRule
       /\ rules' = rules
       /\ emails' = emails]_vars

\* a run has ended in which an action returned False and the actions of a
\* later rule were executed nonetheless
C26_Witness ==
    /\ pc = "done"
    /\ Len(calls) >= 2
    /\ \E i, j \in DOMAIN stdout :
           /\ i < j
           /\ stdout[i].kind = "failed"
           /\ stdout[j].kind = "executing"

---------------------------------------------------------------------------
(* Date conditions that contradict each other. *)

\* the conditions of the rule at positions i and j are "less than d" and
\* "greater than d" on Received Date/Time, for one duration d
NewerAndOlder(rule, i, j) ==
    /\ rule.conditions[i].field = "Received Date/Time"
    /\ rule.conditions[j].field = "Received Date/Time"
    /\ rule.conditions[i].predicate = "less than"
    /\ rule.conditions[j].predicate = "greater than"
    /\ IsDict(rule.conditions[i].value)
    /\ rule.conditions[i].value = rule.conditions[j].value

\* a rule with combinator all that asks for both
Contradictory(rule) ==
    /\ rule.overall_predicate = <<"a", "l", "l">>
    /\ \E i, j \in DOMAIN rule.conditions : NewerAndOlder(rule, i, j)

\* C27 as stated: a rule with combinator all whose conditions include both
\* less than d and greater than d on Received Date/Time matches no record,
\* whatever the time that passes between the evaluations of its conditions.
C27_ContradictoryRuleNeverMatches ==
    \A k \in DOMAIN match_log :
        Contradictory(rules[match_log[k].ri]) => ~match_log[k].val

\* C27 amended: such a rule matches a record only when its less than d is
\* listed before its greater than d and the clock has advanced since the
\* batch started; a rule that lists every greater than d before every less
\* than d matches no record, whatever the time that passes.
C27_MatchesOnlyNewerFirst ==
    \A k \in DOMAIN match_log :
        LET rule == rules[match_log[k].ri]
        IN  (Contradictory(rule) /\ match_log[k].val) =>
                /\ \E i, j \in DOMAIN rule.conditions :
                       i < j /\ NewerAndOlder(rule, i, j)
                /\ now > StartTime

\* a rule that lists greater than d before less than d was evaluated, the
\* clock advanced between the two evaluations, the first condition held,
\* and the rule did not match
C27_Witness ==
    \E k \in DOMAIN match_log :
        LET rule == rules[match_log[k].ri]
        IN  /\ Contradictory(rule)
            /\ Len(rule.conditions) = 2
            /\ NewerAndOlder(rule, 2, 1)
            /\ match_log[k].results = <<TRUE, FALSE>>
            /\ ~match_log[k].val
            /\ now > StartTime
            /\ pc = "done"

---------------------------------------------------------------------------
(* "contains" and "does not contain" on the same field and value. *)

\* the two conditions of the rule are "contains" and "does not contain",
\* in either order, on one text field and one string value
Twins(rule) ==
    /\ Len(rule.conditions) = 2
    /\ rule.conditions[1].field \in TextFields
    /\ rule.conditions[2].field = rule.conditions[1].field
    /\ IsStr(rule.conditions[1].value)
    /\ rule.conditions[2].value = rule.conditions[1].value
    /\ {rule.conditions[1].predicate, rule.conditions[2].predicate} =
           {"contains", "does not contain"}

\* the attribute of the email that the field of the rule's first condition
\* names
TwinValue(email_obj, rule) ==
    CASE rule.conditions[1].field = "From" -> email_obj.from_address
      [] rule.conditions[1].field = "Subject" -> email_obj.subject
      [] OTHER -> email_obj.message_body

\* C28: for every record, text field and string value, when the field value
\* is a string exactly one of (field, contains, value) and (field, does not
\* contain, value) evaluates true; when the field value is absent both
\* evaluate false; neither evaluation raises.
C28_NegationOnPresentStrings ==
    /\ \A k \in DOMAIN match_log :
           LET rule == rules[match_log[k].ri]
               v == TwinValue(emails[match_log[k].ei], rule)
               results == match_log[k].results
           IN  Twins(rule) =>
                   /\ Len(results) = 2
                   /\ IsStr(v) => (results[1] /= results[2])
                   /\ (v = None) => (~results[1] /\ ~results[2])
    /\ (pc = "raised" /\ ri \in DOMAIN rules) => ~Twins(rules[ri])

\* both conditions were evaluated on a field that holds a string: the
\* value is in it when case is ignored, not as it is written
C28_Witness ==
    \E k \in DOMAIN match_log :
        LET rule == rules[match_log[k].ri]
        IN  /\ Twins(rule)
            /\ rule.conditions[1].predicate = "does not contain"
            /\ rule.conditions[1].field = "From"
            /\ rule.conditions[1].value = Str(<<"a">>)
            /\ emails[match_log[k].ei].from_address = Str(<<"A", "b">>)
            /\ match_log[k].results = <<FALSE, TRUE>>
            /\ pc = "done"

---------------------------------------------------------------------------
(* The database connection of process_stored_emails. *)

\* process_stored_emails has ended, by a return or by an exception, and had
\* constructed the DatabaseManager
ScriptEndedWithManager ==
    script \in {"finished", "failed"} /\ conn /= "none"

\* C30: on every path of process_stored_emails on which the DatabaseManager
\* was constructed, the database connection is closed exactly once before
\* the function ends.
C30_ClosedExactlyOnce ==
    /\ ScriptEndedWithManager => closes = 1
    /\ closes <= 1

\* every run of process_stored_emails that returns has closed the
\* connection exactly once if it constructed the DatabaseManager, and not
\* at all otherwise
ReturnedScriptsCloseOnce ==
    /\ script = "finished" =>
           closes = (IF conn = "none" THEN 0 ELSE 1)
    /\ closes <= 1
    /\ (conn = "closed") = (closes = 1)

====
